---- MODULE Spec2Model ----
(***************************************************************************)
(* ReTrans: structural document translation.                                *)
(*                                                                          *)
(* The repository keeps several revisions of the same files side by side.   *)
(* The model names them:                                                    *)
(*   service revision "A"  src/services/geminiService.ts lines   6-114      *)
(*   service revision "B"  src/services/geminiService.ts lines 123-292      *)
(*   service revision "C"  src/services/geminiService.ts lines 301-475      *)
(*   App revision "v1"     src/App.tsx lines  42-430 (Translate button)     *)
(*   App revision "v2"     src/App.tsx lines 469-763 (auto translation)     *)
(*                                                                          *)
(* A text is a sequence of tokens (one token per character, or one opaque   *)
(* token for a reserved word such as the sentinel).  The JavaScript value   *)
(* undefined is the reserved text Undefined.                                *)
(***************************************************************************)
EXTENDS Naturals, Integers, Sequences, FiniteSets, TLC

VARIABLES
  app,        \* the App revision running: "v1" or "v2"
  svc,        \* the GeminiService revision behind it: "A", "B" or "C"
  envKey,     \* process.env.API_KEY is set
  window,     \* which CDN engines have loaded: window.mammoth, window.pdfjsLib
  libsReady,  \* the libsReady state of the App
  hasKey,     \* the hasKey state of the App: "true" or "false"
  keyCheck,   \* the key check of the mount effect has not settled yet
  dialogs,    \* handleKeySelection calls waiting for openSelectKey
  state,      \* the TranslationState of the App
  uploads,    \* handleFileUpload calls waiting for processFile
  runs,       \* translation runs waiting for a model call
  started,    \* how many uploads, runs and picker changes there have been
  tc,         \* one translateChunks invocation (service-level specification)
  call        \* one call of a function of the services or the views

\* ---------------------------------------------------------------- bounds
\* the longest chunk sequence of which every make-up is tried
MaxChunks == 3
\* how many batches the longest job of translateChunks takes
MaxBatch == 2
\* the longest pattern a longer chunk sequence or reply array repeats
MaxPeriod == 2
\* how many uploads, translation runs and changes of the output language,
\* together, one behaviour has
MaxStarts == 4

\* ------------------------------------------------------- JavaScript values
Undefined == <<"#undefined">>
Null == <<"#null">>
EmptyText == <<>>

Falsy(v) == v = EmptyText \/ v = Undefined

\* a || b
JsOr(a, b) == IF Falsy(a) THEN b ELSE a

\* `${err.message}` inside a template literal
TemplateText(message) == IF message = Undefined THEN <<"undefined">> ELSE message

\* arr[i] with a 0-based index i; reading past the end gives undefined
JsIndex(arr, i) == IF i + 1 <= Len(arr) THEN arr[i + 1] ELSE Undefined

Min(a, b) == IF a < b THEN a ELSE b

\* arr.slice(from, to) with 0-based from (inclusive) and to (exclusive)
JsSlice(arr, from, to) == SubSeq(arr, from + 1, Min(to, Len(arr)))

\* ------------------------------------------------------------------ chunks
\* a chunk without a metadata property carries NoMetadata
NoMetadata == [none |-> TRUE]

MkChunk(id, type, text) ==
  [id |-> id, type |-> type, originalText |-> text, translatedText |-> Undefined,
   metadata |-> NoMetadata]

\* ----------------------------------------------------------- error messages
\* msg.includes(needle) finds the needle inside a piece of wording or spelled
\* by the characters of the message, so a message built around another one
\* keeps what the inner one includes.
\* text.includes(pat) for a pattern of one or more tokens
Contains(text, pat) ==
  \E k \in 0..(Len(text) - Len(pat)) : SubSeq(text, k + 1, k + Len(pat)) = pat

\* A message is a sequence of fragments: a fragment is one character or a
\* fixed piece of wording.
MsgEntityNotFound == <<"Requested entity was not found.">>
MsgApiKeyInvalid == <<"API key not valid. Please pass a valid API key.">>
MsgNetwork == <<"fetch failed">>
MsgSync == <<"Synchronization Error: Model returned malformed batch.">>
NoMsg == <<>>

\* the errors generateContent can reject with
ModelErrors == {MsgEntityNotFound, MsgApiKeyInvalid, MsgNetwork}

\* msg.includes("entity was not found")
IncludesEntityNotFound(msg) ==
  \/ \E i \in DOMAIN msg : msg[i] = "Requested entity was not found."
  \/ Contains(msg, <<"e", "n", "t", "i", "t", "y", " ", "w", "a", "s", " ",
                     "n", "o", "t", " ", "f", "o", "u", "n", "d">>)

\* msg.includes("Requested entity was not found")
IncludesRequestedEntityNotFound(msg) ==
  \/ \E i \in DOMAIN msg : msg[i] = "Requested entity was not found."
  \/ Contains(msg, <<"R", "e", "q", "u", "e", "s", "t", "e", "d", " ",
                     "e", "n", "t", "i", "t", "y", " ", "w", "a", "s", " ",
                     "n", "o", "t", " ", "f", "o", "u", "n", "d">>)

\* msg.includes("API key")
IncludesApiKey(msg) ==
  \/ \E i \in DOMAIN msg : msg[i] = "API key not valid. Please pass a valid API key."
  \/ Contains(msg, <<"A", "P", "I", " ", "k", "e", "y">>)

\* ------------------------------------------------------------ model replies
\* What one generateContent call for a batch can produce:
\*   reject  the promise rejects with an Error(msg), or with a value that
\*           has no message (msg is Undefined)
\*   empty   response.text is empty or undefined
\*   garbage response.text is not JSON
\*   null    response.text is the JSON value null
\*   object  response.text is a JSON object
\*   array   response.text is a JSON array of strings
Reject(msg) == [kind |-> "reject", msg |-> msg, arr |-> <<>>]
Plain(kind) == [kind |-> kind, msg |-> NoMsg, arr |-> <<>>]
\* response.text is text, which is not JSON
Garbage(text) == [kind |-> "garbage", msg |-> NoMsg, arr |-> text]
Array(arr) == [kind |-> "array", msg |-> NoMsg, arr |-> arr]

\* two texts that are not JSON: a page of markup, and a notice of the
\* gateway about the key
Html == <<"<", "h", "t", "m", "l", ">">>
ApiKeyExpired ==
  <<"A", "P", "I", " ", "k", "e", "y", " ", "e", "x", "p", "i", "r", "e", "d">>
NotJson == {Html, ApiKeyExpired}

\* the message of the SyntaxError JSON.parse throws on a short text whose
\* first character cannot start a JSON value (wording of V8 since Node 20)
MsgSyntaxError(text) ==
  <<"Unexpected token '", text[1], "', \"">> \o text \o <<"\" is not valid JSON">>

\* JSON.parse(response.text || "[]"); msg is the message of what it throws
JSONparse(reply) ==
  CASE reply.kind = "empty" -> [t |-> "array", arr |-> <<>>, msg |-> NoMsg]
    [] reply.kind = "garbage" ->
         [t |-> "throw", arr |-> <<>>, msg |-> MsgSyntaxError(reply.arr)]
    [] reply.kind = "null" -> [t |-> "null", arr |-> <<>>, msg |-> NoMsg]
    [] reply.kind = "object" -> [t |-> "object", arr |-> <<>>, msg |-> NoMsg]
    [] reply.kind = "array" -> [t |-> "array", arr |-> reply.arr, msg |-> NoMsg]

\* the message of the TypeError of parsed.map(...) on a value that is no
\* array: JSON null has no properties, an object has no map
MsgTypeError(parsed) ==
  IF parsed.t = "null" THEN <<"Cannot read properties of null (reading 'map')">>
  ELSE <<"parsed.map is not a function">>

\* the message of the TypeError of parsed[i] on JSON null; i is 0-based
MsgIndexOfNull(i) ==
  <<"Cannot read properties of null (reading '", ToString(i), "')">>

Ok(val) == [ok |-> TRUE, val |-> val, msg |-> NoMsg]
Throw(msg) == [ok |-> FALSE, val |-> <<>>, msg |-> msg]

\* ---------------------------------------------------------------- sentinel
SKIP == <<"---SKIP---">>
STRUCTURAL_WHITESPACE_MARKER == <<"---STRUCTURAL_WHITESPACE_MARKER---">>

Sentinel(rev) == IF rev = "C" THEN STRUCTURAL_WHITESPACE_MARKER ELSE SKIP

\* batch.map(c => c.type === 'empty-line' ? sentinel : c.originalText)
textSegments(batch, rev) ==
  [i \in 1..Len(batch) |->
     IF batch[i].type = "empty-line" THEN Sentinel(rev) ELSE batch[i].originalText]

Originals(batch) == [i \in 1..Len(batch) |-> batch[i].originalText]

\* ----------------------------------------------------------- translateBatch
\* revision A: no length check, every failure propagates
translateBatchA(batch, reply) ==
  IF reply.kind = "reject" THEN Throw(reply.msg)
  ELSE LET parsed == JSONparse(reply) IN
       IF parsed.t = "throw" THEN Throw(parsed.msg)
       ELSE IF parsed.t # "array" THEN Throw(MsgTypeError(parsed))
       ELSE Ok([i \in 1..Len(parsed.arr) |->
                  IF parsed.arr[i] = SKIP THEN EmptyText ELSE parsed.arr[i]])

\* a slip of revision B: the length check forgotten
translateBatchB_NoLengthCheck(batch, reply) ==
  IF reply.kind = "reject" THEN Throw(reply.msg)
  ELSE LET parsed == JSONparse(reply) IN
       IF parsed.t = "throw" THEN Throw(parsed.msg)
       ELSE IF parsed.t # "array" THEN Throw(MsgSync)
       ELSE Ok([i \in 1..Len(parsed.arr) |->
                  IF parsed.arr[i] = SKIP THEN EmptyText ELSE parsed.arr[i]])

\* revision B: a reply that is not an array of the batch's length throws
translateBatchB(batch, reply) ==
  IF reply.kind = "reject" THEN Throw(reply.msg)
  ELSE LET parsed == JSONparse(reply) IN
       IF parsed.t = "throw" THEN Throw(parsed.msg)
       ELSE IF parsed.t # "array" \/ Len(parsed.arr) # Len(batch) THEN Throw(MsgSync)
       ELSE Ok([i \in 1..Len(parsed.arr) |->
                  IF parsed.arr[i] = SKIP THEN EmptyText ELSE parsed.arr[i]])

\* revision C: authentication errors propagate, every other failure
\* degrades the batch to its original texts
translateBatchC(batch, reply) ==
  LET caught(message) ==
        LET msg == JsOr(message, EmptyText) IN
        IF IncludesEntityNotFound(msg) \/ IncludesApiKey(msg)
          THEN Throw(msg)
          ELSE Ok(Originals(batch))
  IN
  IF reply.kind = "reject" THEN caught(reply.msg)
  ELSE LET parsed == JSONparse(reply) IN
       IF parsed.t = "throw" THEN caught(parsed.msg)
       ELSE IF parsed.t = "null" /\ \E i \in 1..Len(batch) : batch[i].type # "empty-line"
         THEN caught(MsgIndexOfNull(
                CHOOSE i \in 0..(Len(batch) - 1) :
                  /\ batch[i + 1].type # "empty-line"
                  /\ \A j \in 1..i : batch[j].type = "empty-line"))
       ELSE Ok([i \in 1..Len(batch) |->
                  IF batch[i].type = "empty-line" THEN EmptyText
                  ELSE LET val == JsIndex(parsed.arr, i - 1) IN
                       IF val = STRUCTURAL_WHITESPACE_MARKER THEN EmptyText
                       ELSE JsOr(val, batch[i].originalText)])

translateBatch(rev, batch, reply) ==
  CASE rev = "A" -> translateBatchA(batch, reply)
    [] rev = "B" -> translateBatchB(batch, reply)
    [] rev = "C" -> translateBatchC(batch, reply)

\* ---------------------------------------------------------- translateChunks
FLASH == "ENGINES.FLASH"
PRO == "ENGINES.PRO"

\* const BATCH_SIZE = engine === ENGINES.FLASH ? 12 : 8   (revisions A and B)
\* const BATCH_SIZE = 10                                  (revision C)
BatchSizeOf(rev, engine) ==
  IF rev = "C" THEN 10 ELSE IF engine = FLASH THEN 12 ELSE 8

\* a slip of results.push(...batchResults): the batch put in front
pushResults_Prepend(results, batchResults) == batchResults \o results

\* results.push(...batchResults)
pushResults(results, batchResults) == results \o batchResults

\* One invocation of translateChunks, from the call to the first await.
\* log is the history of the translateBatch calls made so far.
translateChunksCall(rev, batchSize, chunks, useGrounding) ==
  [rev |-> rev, BATCH_SIZE |-> batchSize, chunks |-> chunks,
   useGrounding |-> useGrounding, i |-> 0,
   results |-> <<>>, err |-> NoMsg, log |-> <<>>,
   status |-> IF 0 < Len(chunks) THEN "running" ELSE "returned"]

\* The batch the invocation is waiting for: chunks.slice(i, i + BATCH_SIZE)
CurrentBatch(t) == JsSlice(t.chunks, t.i, t.i + t.BATCH_SIZE)

\* config.tools of the request translateBatch sends: revisions A and C set it
\* to [{googleSearch: {}}] if (useGrounding); revision B builds its config
\* without looking at useGrounding
configTools(rev, useGrounding) ==
  IF rev \in {"A", "C"} /\ useGrounding THEN <<"googleSearch">> ELSE <<>>

\* One turn of the for loop: the awaited translateBatch settles with reply.
translateChunksStep(t, reply) ==
  LET batch == CurrentBatch(t)
      out == translateBatch(t.rev, batch, reply)
      entry == [at |-> t.i, batch |-> batch, reply |-> reply, out |-> out,
                tools |-> configTools(t.rev, t.useGrounding)]
  IN IF out.ok
       THEN [t EXCEPT !.results = pushResults(@, out.val),
                      !.i = @ + t.BATCH_SIZE,
                      !.log = Append(@, entry),
                      !.status = IF t.i + t.BATCH_SIZE < Len(t.chunks)
                                   THEN "running" ELSE "returned"]
       ELSE [t EXCEPT !.err = out.msg,
                      !.log = Append(@, entry),
                      !.status = "thrown"]

\* ------------------------------------------------------------ text helpers
Whitespace == {" ", "\t", "\r", "\n"}

RECURSIVE TrimStart(_)
TrimStart(t) ==
  IF t # <<>> /\ Head(t) \in Whitespace THEN TrimStart(Tail(t)) ELSE t

RECURSIVE TrimEnd(_)
TrimEnd(t) ==
  IF t # <<>> /\ t[Len(t)] \in Whitespace THEN TrimEnd(SubSeq(t, 1, Len(t) - 1)) ELSE t

\* text.trim()
Trim(t) == TrimEnd(TrimStart(t))

\* a split on "\n" alone, which leaves the "\r" of a CRLF ending in the line
RECURSIVE SplitLines_LFOnly(_, _)
SplitLines_LFOnly(t, cur) ==
  IF t = <<>> THEN <<cur>>
  ELSE IF Head(t) = "\n" THEN <<cur>> \o SplitLines_LFOnly(Tail(t), <<>>)
  ELSE SplitLines_LFOnly(Tail(t), Append(cur, Head(t)))

\* text.split(/\r?\n/): cur is the line being read, a "\r" right before a
\* "\n" belongs to the separator
RECURSIVE SplitLines(_, _)
SplitLines(t, cur) ==
  IF t = <<>> THEN <<cur>>
  ELSE IF Head(t) = "\n" THEN <<cur>> \o SplitLines(Tail(t), <<>>)
  ELSE IF Head(t) = "\r" /\ Len(t) >= 2 /\ t[2] = "\n"
    THEN <<cur>> \o SplitLines(Tail(Tail(t)), <<>>)
  ELSE SplitLines(Tail(t), Append(cur, Head(t)))

\* ---------------------------------------------------------------- extraction
\* level: undefined
NoLevel == 0

\* lines.map((line, index) => ...) of processTxt; index is 0-based
processTxtLine(line, index) ==
  IF Len(Trim(line)) = 0
    THEN MkChunk(<<"txt-empty-", index>>, "empty-line", EmptyText)
    ELSE [MkChunk(<<"chunk-", index>>,
                  IF index = 0 THEN "heading" ELSE "paragraph", line)
            EXCEPT !.metadata = [alignment |-> "left", isBold |-> (index = 0),
                                 level |-> IF index = 0 THEN 1 ELSE NoLevel]]

processTxt(text) ==
  LET lines == SplitLines(text, <<>>)
  IN [k \in 1..Len(lines) |-> processTxtLine(lines[k], k - 1)]

LINE_THRESHOLD == 10

Abs(x) == IF x < 0 THEN -x ELSE x

PdfParagraph(chunks, line) ==
  [MkChunk(<<"pdf-p-", Len(chunks)>>, "paragraph", Trim(line))
     EXCEPT !.metadata = [alignment |-> "left"]]

\* the loop over the items of one page of processPdf
RECURSIVE PdfItems(_, _, _, _)
PdfItems(items, chunks, currentLine, lastY) ==
  IF items = <<>>
    THEN IF Trim(currentLine) # <<>>
           THEN Append(chunks, PdfParagraph(chunks, currentLine))
           ELSE chunks
    ELSE LET item == Head(items)
             y == item.y
             flush == lastY # -1 /\ Abs(y - lastY) > LINE_THRESHOLD
             flushed ==
               IF ~flush THEN chunks
               ELSE IF Trim(currentLine) # <<>>
                 THEN Append(chunks, PdfParagraph(chunks, currentLine))
                 ELSE Append(chunks,
                             MkChunk(<<"pdf-e-", Len(chunks)>>, "empty-line", EmptyText))
             line == IF flush THEN <<>> ELSE currentLine
         IN PdfItems(Tail(items), flushed, line \o <<" ">> \o item.str, y)

\* the loop over the pages of processPdf
RECURSIVE PdfPages(_, _)
PdfPages(pages, chunks) ==
  IF pages = <<>> THEN chunks
  ELSE PdfPages(Tail(pages), PdfItems(Head(pages), chunks, <<>>, -1))


\* the ballot boxes U+2610 (empty), U+2611 (checked) and U+2612 (crossed)
BALLOT_BOX == "U+2610"
CHECKED_BOX == "U+2611"
CROSSED_BOX == "U+2612"

\* ------------------------------------------------------ extraction: processDocx
\* The markup tree mammoth and DOMParser produce.  A node is a text node (tag
\* "#text") or an element; underline and textAlign are what its style holds.
TextNode(t) ==
  [tag |-> "#text", text |-> t, children |-> <<>>, underline |-> FALSE, textAlign |-> ""]
Element(tag, children) ==
  [tag |-> tag, text |-> <<>>, children |-> children, underline |-> FALSE, textAlign |-> ""]

\* el.innerText of a tree that is not rendered: the texts of its descendants
RECURSIVE innerText(_)
RECURSIVE innerTextOf(_)
innerTextOf(nodes) ==
  IF nodes = <<>> THEN <<>> ELSE innerText(Head(nodes)) \o innerTextOf(Tail(nodes))
innerText(node) ==
  IF node.tag = "#text" THEN node.text ELSE innerTextOf(node.children)

\* el.querySelector(tags) !== null: some descendant element has one of the tags
RECURSIVE querySelector(_, _)
querySelector(el, tags) ==
  \E k \in 1..Len(el.children) :
    el.children[k].tag \in tags \/ querySelector(el.children[k], tags)

\* parseInt(tagName.substring(1))
HeadingLevel(tagName) ==
  CASE tagName = "h1" -> 1 [] tagName = "h2" -> 2 [] tagName = "h3" -> 3
    [] tagName = "h4" -> 4 [] tagName = "h5" -> 5 [] tagName = "h6" -> 6

\* text.match(/^[\[(][xX\s][\])]|^[boxes]/)
checkboxMatch(text) ==
  \/ /\ Len(text) >= 3
     /\ text[1] \in {"[", "("}
     /\ text[2] \in {"x", "X"} \cup Whitespace
     /\ text[3] \in {"]", ")"}
  \/ /\ Len(text) >= 1
     /\ text[1] \in {BALLOT_BOX, CHECKED_BOX, CROSSED_BOX}

\* text.includes(checked box) || text.includes(crossed box)
\*   || /^[\[(][xX][\])]/.test(text)
isCheckedText(text) ==
  \/ Contains(text, <<CHECKED_BOX>>)
  \/ Contains(text, <<CROSSED_BOX>>)
  \/ /\ Len(text) >= 3
     /\ text[1] \in {"[", "("}
     /\ text[2] \in {"x", "X"}
     /\ text[3] \in {"]", ")"}

\* walk(node) with the chunks pushed so far; insideU tells whether an ancestor
\* of the node is a u element (el.closest('u'))
RECURSIVE walk(_, _, _)
RECURSIVE walkChildren(_, _, _)
\* a walk over the children from the last to the first
walkChildren_Reversed(nodes, chunks, insideU) ==
  IF nodes = <<>> THEN chunks
  ELSE walkChildren(SubSeq(nodes, 1, Len(nodes) - 1),
                    walk(nodes[Len(nodes)], chunks, insideU), insideU)

walkChildren(nodes, chunks, insideU) ==
  IF nodes = <<>> THEN chunks
  ELSE walkChildren(Tail(nodes), walk(Head(nodes), chunks, insideU), insideU)
walk(el, chunks, insideU) ==
  LET tagName == el.tag
      text == Trim(innerText(el))
      underlined == querySelector(el, {"u"}) \/ el.underline
  IN CASE tagName = "#text" -> chunks
       [] tagName \in {"h1", "h2", "h3", "h4", "h5", "h6"} ->
            Append(chunks,
              [MkChunk(<<"docx-h-", Len(chunks)>>, "heading", text)
                 EXCEPT !.metadata = [level |-> HeadingLevel(tagName), isBold |-> TRUE,
                                      isUnderlined |-> underlined]])
       [] tagName = "p" ->
            IF text = <<>>
              THEN Append(chunks, MkChunk(<<"docx-e-", Len(chunks)>>, "empty-line", EmptyText))
              ELSE Append(chunks,
                     [MkChunk(<<"docx-p-", Len(chunks)>>,
                              IF checkboxMatch(text) THEN "checkbox" ELSE "paragraph", text)
                        EXCEPT !.metadata =
                          [isBold |-> querySelector(el, {"strong", "b"}),
                           isItalic |-> querySelector(el, {"em", "i"}),
                           isUnderlined |-> underlined \/ insideU,
                           isCheckbox |-> checkboxMatch(text),
                           isChecked |-> isCheckedText(text)]])
       [] tagName \in {"td", "th"} ->
            Append(chunks,
              [MkChunk(<<"docx-td-", Len(chunks)>>, "table-cell", text)
                 EXCEPT !.metadata =
                   [isBold |-> tagName = "th" \/ querySelector(el, {"strong", "b"}),
                    isUnderlined |-> underlined,
                    alignment |-> IF el.textAlign = "" THEN "left" ELSE el.textAlign]])
       [] tagName = "br" ->
            Append(chunks, MkChunk(<<"docx-br-", Len(chunks)>>, "empty-line", EmptyText))
       [] OTHER -> walkChildren(el.children, chunks, insideU \/ tagName = "u")

MsgPdfFailed == <<"PDF mapping failed. This file might be an image-only scan; please try the Neural Vision mode.">>
MsgDocxFailed == <<"Word document extraction failed. The file might be corrupted or protected.">>
MsgUnsupported == <<"Unsupported file format. Please use PDF, DOCX, or TXT.">>
MsgDocxNotReady == <<"Word processing engine is still initializing. Please wait.">>
MsgPdfNotReady == <<"PDF processing engine is still initializing. Please wait.">>

\* a processPdf that takes a document without fragments for a failure
processPdf_RaisesOnEmpty(file) ==
  IF file.corrupt \/ PdfPages(file.pages, <<>>) = <<>> THEN Throw(MsgPdfFailed)
  ELSE Ok(PdfPages(file.pages, <<>>))

\* a file whose bytes pdf.js cannot read makes getDocument reject
processPdf(file) ==
  IF file.corrupt THEN Throw(MsgPdfFailed) ELSE Ok(PdfPages(file.pages, <<>>))

\* a file mammoth cannot convert makes convertToHtml reject; file.html is the
\* content of the body of the converted document
processDocx(file) ==
  IF file.corrupt THEN Throw(MsgDocxFailed)
  ELSE Ok(walk(Element("body", file.html), <<>>, FALSE))

\* String.prototype.toLowerCase on the last parts of the file names of the
\* model: the ones with capitals are listed, the others are lower case
toLowerCase(seg) ==
  CASE seg = "TXT" -> "txt"
    [] seg = "PDF" -> "pdf"
    [] seg = "DOCX" -> "docx"
    [] seg = "DOC" -> "doc"
    [] seg = "README" -> "readme"
    [] OTHER -> seg

\* file.name.split('.').pop()?.toLowerCase(); a name is its '.'-separated parts
Extension(file) == toLowerCase(file.name[Len(file.name)])

\* toBase64: the part of the data URL after the comma; if the reader fails
\* the promise rejects with the reader's event, which has no message
toBase64(file) ==
  IF ~file.readable THEN Throw(Undefined)
  ELSE Ok(IF file.size > 0 THEN <<"base64:", file.name>> ELSE EmptyText)

\* processFile: the result is Ok([chunks, fileData, mimeType]) or Throw(msg);
\* win tells which conversion engines are loaded
processFile(file, win) ==
  LET extension == Extension(file)
      base64 == toBase64(file)
      mimeType == IF file.type # "" THEN file.type
                  ELSE IF extension = "pdf" THEN "application/pdf" ELSE "text/plain"
      done(chunks) ==
        Ok([chunks |-> chunks, fileData |-> base64.val, mimeType |-> mimeType])
  IN IF ~base64.ok THEN base64 ELSE
     CASE extension = "txt" -> done(processTxt(file.text))
       [] extension = "docx" ->
            IF ~win.mammoth THEN Throw(MsgDocxNotReady)
            ELSE LET r == processDocx(file) IN IF r.ok THEN done(r.val) ELSE r
       [] extension = "pdf" ->
            IF ~win.pdfjsLib THEN Throw(MsgPdfNotReady)
            ELSE LET r == processPdf(file) IN IF r.ok THEN done(r.val) ELSE r
       [] OTHER -> Throw(MsgUnsupported)

\* ------------------------------------------------- translateScannedDocument
MsgVisionPrefixB == "Vision Engine Failure: "
MsgVisionFailedC == <<"Neural vision engine failed to map this document structure.">>
MsgApiKeyNotFound == <<"API_KEY_NOT_FOUND">>
MsgIncludesTypeError == <<"Cannot read properties of undefined (reading 'includes')">>

\* text.toLowerCase() on the tokens the checkbox test looks at
LowerText(text) == [k \in 1..Len(text) |-> IF text[k] = "X" THEN "x" ELSE text[k]]

\* parsed.map((item, idx) => ...) of revision B; idx is 0-based
OcrChunkB(item, idx) ==
  [id |-> <<"ocr-", idx>>,
   type |-> IF item.type = "checkbox" THEN "checkbox"
            ELSE IF item.type = "heading" THEN "heading" ELSE "paragraph",
   originalText |-> item.original,
   translatedText |-> item.translated,
   metadata |-> [isCheckbox |-> (item.type = "checkbox"),
                 isChecked |-> Contains(item.original, <<CHECKED_BOX>>)
                                 \/ Contains(LowerText(item.original), <<"[", "x", "]">>)]]

\* parsed.map((item, idx) => ...) of revision C
OcrChunkC(item, idx) ==
  [id |-> <<"ocr-", idx>>,
   type |-> IF item.type = "checkbox" THEN "checkbox"
            ELSE IF item.type = "heading" THEN "heading"
            ELSE IF item.type = "table-cell" THEN "table-cell" ELSE "paragraph",
   originalText |-> item.original,
   translatedText |-> item.translated,
   metadata |-> [alignment |-> "left",
                 isCheckbox |-> (item.type = "checkbox"),
                 isChecked |-> Contains(item.original, <<CHECKED_BOX>>)
                                 \/ Contains(item.original, <<"[", "x", "]">>)]]

\* the body of the try block: Ok(chunks) or Throw(msg of the error caught)
VisionTry(rev, reply) ==
  IF reply.kind = "reject" THEN Throw(reply.msg)
  ELSE LET parsed == JSONparse(reply) IN
       IF parsed.t = "throw" THEN Throw(parsed.msg)
       ELSE IF parsed.t # "array" THEN Throw(MsgTypeError(parsed))
       ELSE IF \E k \in 1..Len(parsed.arr) : parsed.arr[k].original = Undefined
         THEN Throw(MsgIncludesTypeError)
       ELSE Ok([k \in 1..Len(parsed.arr) |->
                  IF rev = "B" THEN OcrChunkB(parsed.arr[k], k - 1)
                  ELSE OcrChunkC(parsed.arr[k], k - 1)])

\* revision B wraps every error; revision C tells a missing entity apart
translateScannedDocument(rev, reply) ==
  LET r == VisionTry(rev, reply) IN
  IF r.ok THEN r
  ELSE IF rev = "B" THEN Throw(<<MsgVisionPrefixB>> \o TemplateText(r.msg))
  ELSE IF r.msg # Undefined /\ IncludesEntityNotFound(r.msg)
    THEN Throw(MsgApiKeyNotFound)
  ELSE Throw(MsgVisionFailedC)

\* ------------------------------------------------------------ detectLanguage
\* (response.text || "en").trim().toLowerCase().substring(0, 2); a rejected
\* call gives "en"
Upper == {"F", "R", "E", "N"}
LowerOf(c) ==
  CASE c = "F" -> "f" [] c = "R" -> "r" [] c = "E" -> "e" [] c = "N" -> "n"
    [] OTHER -> c
LowerCaseText(text) == [k \in 1..Len(text) |-> LowerOf(text[k])]

\* a detectLanguage without its catch block: the failure comes out
detectLanguage_NoCatch(reply) ==
  IF reply.kind = "reject" THEN reply.msg
  ELSE LET text == JsOr(reply.arr, <<"e", "n">>)
           low == LowerCaseText(Trim(text))
       IN SubSeq(low, 1, Min(2, Len(low)))

detectLanguage(reply) ==
  IF reply.kind = "reject" THEN <<"e", "n">>
  ELSE LET text == JsOr(reply.arr, <<"e", "n">>)
           low == LowerCaseText(Trim(text))
       IN SubSeq(low, 1, Min(2, Len(low)))

\* ------------------------------------------- inputs of the service-level spec
Revs == {"A", "B", "C"}

ParagraphA == MkChunk("p", "paragraph", <<"a">>)
EmptyLine == MkChunk("e", "empty-line", EmptyText)
InputChunks == {ParagraphA, EmptyLine}

SeqsUpTo(S, n) == UNION {[1..k -> S] : k \in 0..n}

Translated == <<"x">>
ReplyValues(rev) == {Translated, Sentinel(rev)}

\* every reply to a batch of n segments: failures and arrays of strings
\* the sequence of n elements that repeats the pattern p
Cycle(p, n) == [k \in 1..n |-> p[((k - 1) % Len(p)) + 1]]

\* the sequences over S of up to short elements, and those of the lengths
\* of long that repeat a pattern of up to MaxPeriod elements
SeqsOfLengths(S, short, long) ==
  SeqsUpTo(S, short)
    \cup {Cycle(p, n) : p \in SeqsUpTo(S, MaxPeriod) \ {<<>>}, n \in long}

\* the arrays the model may answer a batch of n chunks with: every array of
\* up to n + 1 strings for a short batch; for a long one the empty array
\* and arrays one string short, of the right length and one string long
ReplyArrays(rev, n) ==
  IF n <= MaxChunks
    THEN SeqsOfLengths(ReplyValues(rev), n + 1, {})
    ELSE SeqsOfLengths(ReplyValues(rev), 0, {n - 1, n, n + 1})

Replies(rev, n) ==
  {Reject(m) : m \in ModelErrors \cup {Undefined}}
    \cup {Plain(k) : k \in {"empty", "null", "object"}}
    \cup {Garbage(text) : text \in NotJson}
    \cup {Array(a) : a \in ReplyArrays(rev, n)}

Idle == [rev |-> "A", BATCH_SIZE |-> BatchSizeOf("A", PRO), chunks |-> <<>>, useGrounding |-> FALSE, i |-> 0,
         results |-> <<>>, err |-> NoMsg, log |-> <<>>, status |-> "idle"]

\* --------------------------------------------------------------- the files
\* lines joined by "\n"
RECURSIVE JoinLines(_)
JoinLines(lines) ==
  IF Len(lines) = 0 THEN <<>>
  ELSE IF Len(lines) = 1 THEN lines[1]
  ELSE lines[1] \o <<"\n">> \o JoinLines(Tail(lines))

\* a text file of eleven lines: a title, a blank line, nine body lines
LeaseTxt ==
  [name |-> <<"lease", "txt">>, type |-> "text/plain", size |-> 1, corrupt |-> FALSE,
   readable |-> TRUE,
   text |-> JoinLines(<<<<"T">>, <<>>, <<"a">>, <<"b">>, <<"c">>, <<"d">>, <<"e">>,
                        <<"f">>, <<"g">>, <<"h">>, <<"i">>>>),
   pages |-> <<>>, html |-> <<>>]

\* a text file holding one whitespace-only line
BlankTxt ==
  [name |-> <<"blank", "TXT">>, type |-> "", size |-> 1, corrupt |-> FALSE,
   readable |-> TRUE,
   text |-> <<" ">>, pages |-> <<>>, html |-> <<>>]

\* an image-only scan: one page without any text fragment
ScanPdf ==
  [name |-> <<"scan", "pdf">>, type |-> "", size |-> 1, corrupt |-> FALSE,
   readable |-> TRUE,
   text |-> <<>>, pages |-> << <<>> >>, html |-> <<>>]

\* a file of an unsupported kind
SetupExe ==
  [name |-> <<"setup", "exe">>, type |-> "", size |-> 1, corrupt |-> FALSE,
   readable |-> TRUE,
   text |-> <<>>, pages |-> <<>>, html |-> <<>>]

\* a file of an unsupported kind that the browser cannot read
LockedExe == [SetupExe EXCEPT !.readable = FALSE]

Files == {LeaseTxt, BlankTxt, ScanPdf, SetupExe, LockedExe}

\* ------------------------------------------------- replies the App can meet
\* the translation of a text into a language
Tr(text, lang) == <<lang>> \o text

\* the reply of a model that follows its instructions
Faithful(rev, batch, lang) ==
  Array([i \in 1..Len(batch) |->
           IF batch[i].type = "empty-line" THEN Sentinel(rev)
           ELSE Tr(batch[i].originalText, lang)])

\* the same reply with its last string missing
Short(rev, batch, lang) ==
  LET a == Faithful(rev, batch, lang).arr IN Array(SubSeq(a, 1, Len(a) - 1))

\* the reply of a model that answers every segment with the sentinel
Skipped(rev, batch) == Array([i \in 1..Len(batch) |-> Sentinel(rev)])

\* the replies a batch call of the App meets: rejections, texts that are
\* not JSON, the faithful reply and a reply of the wrong length; the runs of
\* revision v1 meet the reply of sentinels as well
AppBatchReplies(rev, batch, lang) ==
  {Reject(MsgEntityNotFound), Reject(MsgNetwork), Garbage(Html), Garbage(ApiKeyExpired),
   Faithful(rev, batch, lang), Short(rev, batch, lang)}
    \cup (IF app = "v1" THEN {Skipped(rev, batch)} ELSE {})

OcrItems(lang) ==
  <<[type |-> "heading", original |-> <<"T">>, translated |-> Tr(<<"T">>, lang)],
    [type |-> "checkbox", original |-> <<CHECKED_BOX, "a">>,
     translated |-> Tr(<<CHECKED_BOX, "a">>, lang)]>>

\* items that do not follow the response schema: one without its translated
\* text, one without its original text
OcrItemUntranslated ==
  [type |-> "paragraph", original |-> <<"a">>, translated |-> Undefined]
OcrItemBlind(lang) ==
  [type |-> "paragraph", original |-> Undefined, translated |-> Tr(<<"a">>, lang)]

VisionReplies(lang) ==
  {Reject(MsgEntityNotFound), Reject(MsgNetwork), Reject(Undefined),
   Garbage(Html), Garbage(ApiKeyExpired),
   Plain("object"),
   Array(OcrItems(lang)),
   Array(<<OcrItemUntranslated>>),
   Array(<<OcrItemBlind(lang)>>)}

Text(t) == [kind |-> "text", msg |-> NoMsg, arr |-> t]

DetectReplies == {Reject(MsgNetwork), Text(<<" ", "F", "R", "\n">>)}

\* ------------------------------------------------------------ App: the state
InitialState ==
  [isProcessing |-> FALSE, error |-> Null, originalFileName |-> Null,
   originalFileType |-> Null, chunks |-> <<>>, originalFileData |-> Undefined,
   mimeType |-> Undefined, sourceLang |-> "auto", targetLang |-> "en",
   groundingEnabled |-> FALSE]

RemoveAt(seq, k) == SubSeq(seq, 1, k - 1) \o SubSeq(seq, k + 1, Len(seq))

\* what a handler keeps of the state it was created with (its closure)
Closure(st) ==
  [chunks |-> st.chunks, originalFileData |-> st.originalFileData,
   mimeType |-> st.mimeType, sourceLang |-> st.sourceLang,
   targetLang |-> st.targetLang, groundingEnabled |-> st.groundingEnabled]

\* a run: pc is the call it waits for ("vision", "detect", "chunks", "reauth"),
\* st what its handler works with, t its translateChunks invocation
NewRun(pc, st) == [pc |-> pc, st |-> st, t |-> Idle, lang |-> st.sourceLang, err |-> NoMsg]

\* a merge without the fallback: translatedText: translatedTexts[i]
MergeTranslations_NoFallback(chunks, translatedTexts) ==
  [i \in 1..Len(chunks) |->
     [chunks[i] EXCEPT !.translatedText = JsIndex(translatedTexts, i - 1)]]

\* state.chunks.map((chunk, i) =>
\*   ({...chunk, translatedText: translatedTexts[i] || chunk.originalText}))
MergeTranslations(chunks, translatedTexts) ==
  [i \in 1..Len(chunks) |->
     [chunks[i] EXCEPT !.translatedText =
        JsOr(JsIndex(translatedTexts, i - 1), chunks[i].originalText)]]

\* (chunks.length === 0 || chunks.every(c => !c.originalText.trim()))
\*   && state.originalFileData
isVisionMode(st) ==
  /\ \/ Len(st.chunks) = 0
     \/ \A i \in 1..Len(st.chunks) : Trim(st.chunks[i].originalText) = <<>>
  /\ ~Falsy(st.originalFileData)

\* the fifth argument of the translateChunks call: revision v2 passes
\* selectedEngine (always ENGINES.PRO), the others pass state.groundingEnabled
EngineArg(st) ==
  IF app = "v2" THEN PRO ELSE IF st.groundingEnabled THEN "true" ELSE "false"

\* the useGrounding argument of the translateChunks call: revision v2 and
\* revision v1 on service C pass state.groundingEnabled; revision v1 on service
\* B passes state.glossary in that position, an array, which is truthy
GroundingArg(st) == IF app = "v1" /\ svc = "B" THEN TRUE ELSE st.groundingEnabled

\* state.error?.includes("API")
IncludesAPI(msg) ==
  \/ \E i \in DOMAIN msg :
       msg[i] \in {"API key not valid. Please pass a valid API key.",
                   "Authentication Error: Please re-select your Gemini API Key.",
                   "API_KEY_NOT_FOUND"}
  \/ Contains(msg, <<"A", "P", "I">>)

\* ------------------------------------------------------------ App: messages
MsgWordLoading == <<"Word engine (Mammoth) is still loading. Please retry in 2 seconds.">>
MsgPdfLoading == <<"PDF engine (PDF.js) is still loading. Please retry in 2 seconds.">>
MsgWarmingUp == <<"System warming up... try again in 3 seconds.">>
MsgAuthV1 == <<"Authentication Error: Please re-select your Gemini API Key.">>

appVars ==
  <<app, svc, envKey, window, libsReady, hasKey, keyCheck, dialogs, state, uploads, runs,
    started>>
vars ==
  <<app, svc, envKey, window, libsReady, hasKey, keyCheck, dialogs, state, uploads, runs,
    started, tc, call>>
revision == <<app, svc, envKey>>

\* ------------------------------------------------------- App: the libraries
\* one more CDN script has loaded and the poll of the mount effect sees it:
\* setLibsReady({docx, pdf})
checkLibs ==
  /\ \E lib \in {"mammoth", "pdfjsLib"} :
       /\ ~window[lib]
       /\ window' = [window EXCEPT ![lib] = TRUE]
       /\ libsReady' = [docx |-> window'.mammoth, pdf |-> window'.pdfjsLib]
  /\ UNCHANGED <<revision, keyCheck, dialogs, hasKey, state, uploads, runs, started, tc, call>>

\* checkEnvKey of revision v1: setHasKey(true) if process.env.API_KEY is set,
\* setHasKey(false) if not
checkEnvKey == IF envKey THEN "true" ELSE "false"

\* what the awaited window.aistudio.hasSelectedApiKey() of the mount effect
\* gives: true, false, or nothing (no platform object, or the call rejects)
hasSelectedApiKey == {"true", "false", "undefined"}

\* the key check of the mount effect settles.  Revision v1 asks the platform
\* first and looks at the environment only if the platform gives nothing;
\* revision v2 looks at the environment first (the key of the model is
\* longer than 5 characters): with a key there it calls setHasKey(true) in
\* the mount effect itself and awaits nothing, without one it asks the
\* platform and has no key if the platform gives nothing.
checkKeyStatus ==
  /\ keyCheck
  /\ app = "v2" => ~envKey
  /\ keyCheck' = FALSE
  /\ \E selected \in hasSelectedApiKey :
       hasKey' = IF app = "v1"
                   THEN IF selected # "undefined" THEN selected ELSE checkEnvKey
                 ELSE IF envKey \/ selected = "true" THEN "true" ELSE "false"
  /\ UNCHANGED <<revision, dialogs, window, libsReady, state, uploads, runs, started, tc,
                 call>>

\* await window.aistudio.openSelectKey() inside handleKeySelection: the
\* dialog closes and the call resolves, or the call fails
openSelectKey == {TRUE, FALSE}

\* how many key dialogs the buttons of the key banner and of the error box
\* have open at a time
MaxDialogs == 1

\* handleKeySelection up to its await: the handler of revision v1 keeps the
\* state.error of the render it comes from, the one of revision v2 reads
\* nothing of the state
handleKeySelectionCall(error) ==
  dialogs' = Append(dialogs, [error |-> IF app = "v1" THEN error ELSE Null])

\* the awaited openSelectKey of dialog k settles: setHasKey(true) and, in
\* revision v1, if (state.error?.includes("API")) setState(p => ({...p,
\* error: null})) with the error the handler kept
openSelectKeySettles ==
  /\ \E k \in 1..Len(dialogs) :
       /\ dialogs' = SubSeq(dialogs, 1, k - 1) \o SubSeq(dialogs, k + 1, Len(dialogs))
       /\ \E opened \in openSelectKey :
            IF opened
              THEN /\ hasKey' = "true"
                   /\ state' = IF /\ app = "v1"
                                  /\ dialogs[k].error # Null
                                  /\ IncludesAPI(dialogs[k].error)
                                 THEN [state EXCEPT !.error = Null] ELSE state
              ELSE UNCHANGED <<hasKey, state>>
  /\ UNCHANGED <<revision, keyCheck, window, libsReady, uploads, runs, started, tc, call>>

\* ------------------------------------------------------- App v1: the upload
\* the uploader is rendered while state.chunks is empty; the overlay shown
\* until libsReady.docx && libsReady.pdf (isReadyToProcess) does not cover
\* it, so a file can be dropped before the engines have loaded
handleFileUpload_v1 ==
  /\ app = "v1"
  /\ state.chunks = <<>>
  /\ started < MaxStarts
  /\ started' = started + 1
  /\ \E file \in Files :
       LET ext == Extension(file) IN
       IF ext = "docx" /\ ~libsReady.docx
         THEN /\ state' = [state EXCEPT !.error = MsgWordLoading]
              /\ UNCHANGED uploads
       ELSE IF ext = "pdf" /\ ~libsReady.pdf
         THEN /\ state' = [state EXCEPT !.error = MsgPdfLoading]
              /\ UNCHANGED uploads
       ELSE /\ state' = [state EXCEPT !.isProcessing = TRUE, !.error = Null,
                                      !.originalFileName = file.name]
            /\ uploads' = Append(uploads, [file |-> file, targetLang |-> state.targetLang])
  /\ UNCHANGED <<revision, keyCheck, dialogs, window, libsReady, hasKey, runs, tc, call>>

\* the awaited processFile settles
processFileSettles_v1 ==
  /\ app = "v1"
  /\ \E k \in 1..Len(uploads) :
       LET file == uploads[k].file
           processed == processFile(file, window)
       IN /\ uploads' = RemoveAt(uploads, k)
          /\ IF processed.ok
               THEN state' = [state EXCEPT !.chunks = processed.val.chunks,
                                           !.originalFileData = processed.val.fileData,
                                           !.mimeType = processed.val.mimeType,
                                           !.isProcessing = FALSE,
                                           !.originalFileType = Extension(file)]
               ELSE state' = [state EXCEPT !.isProcessing = FALSE,
                                           !.error = <<"Upload Failed: ">>
                                                     \o TemplateText(processed.msg)]
  /\ UNCHANGED <<revision, keyCheck, dialogs, window, libsReady, hasKey, runs, started, tc, call>>

\* ------------------------------------------------- App v1: startTranslation
\* the catch block of startTranslation in revision v1
Catch_v1(msg0) ==
  LET msg == JsOr(msg0, <<"Unknown engine fault">>)
      isAuthError == IncludesApiKey(msg) \/ IncludesEntityNotFound(msg)
  IN /\ hasKey' = IF isAuthError THEN "false" ELSE hasKey
     /\ state' = [state EXCEPT !.isProcessing = FALSE,
                               !.error = IF isAuthError THEN MsgAuthV1 ELSE msg]

\* the Translate button is rendered while state.chunks is not empty and is
\* disabled while state.isProcessing
TranslateButton_v1 == state.chunks # <<>> /\ ~state.isProcessing

startTranslation_v1 ==
  /\ app = "v1"
  /\ TranslateButton_v1
  /\ started < MaxStarts
  /\ started' = started + 1
  /\ IF ~envKey
       THEN \* await handleKeySelection(); return
            /\ handleKeySelectionCall(state.error)
            /\ UNCHANGED <<hasKey, state, runs>>
       ELSE LET st == Closure(state) IN
            /\ UNCHANGED dialogs
            /\ state' = [state EXCEPT !.isProcessing = TRUE, !.error = Null]
            /\ runs' = Append(runs,
                 IF isVisionMode(st) THEN NewRun("vision", st)
                 ELSE IF st.sourceLang = "auto" THEN NewRun("detect", st)
                 ELSE [NewRun("chunks", st) EXCEPT
                         !.t = translateChunksCall(svc, BatchSizeOf(svc, EngineArg(st)),
                                                   st.chunks, GroundingArg(st))])
            /\ UNCHANGED hasKey
  /\ UNCHANGED <<revision, keyCheck, window, libsReady, uploads, tc, call>>

\* the awaited translateScannedDocument of run k settles with reply
VisionSettlesWith(k, reply) ==
  LET ocr == translateScannedDocument(svc, reply) IN
  /\ runs[k].pc = "vision"
  /\ IF ocr.ok
       THEN /\ state' = [state EXCEPT !.chunks = ocr.val, !.isProcessing = FALSE]
            /\ UNCHANGED hasKey
       ELSE Catch_v1(ocr.msg)
  /\ runs' = RemoveAt(runs, k)
  /\ UNCHANGED <<revision, keyCheck, dialogs, window, libsReady, uploads, started, tc, call>>

VisionSettles ==
  /\ app = "v1"
  /\ \E k \in 1..Len(runs) :
       \E reply \in VisionReplies(runs[k].st.targetLang) : VisionSettlesWith(k, reply)

\* translateChunks has returned translatedTexts to the run with closure st
Merged(st, translatedTexts) ==
  state' = [state EXCEPT !.chunks = MergeTranslations(st.chunks, translatedTexts),
                         !.isProcessing = FALSE]

\* the catch block of performTranslation in revision v2 up to its await: a
\* missing entity clears hasKey and opens the key dialog before the error is
\* stored
Catch_v2(k, msg) ==
  IF msg # Undefined /\ IncludesRequestedEntityNotFound(msg)
    THEN /\ hasKey' = "false"
         /\ runs' = [runs EXCEPT ![k] = [@ EXCEPT !.pc = "reauth", !.err = msg]]
         /\ UNCHANGED state
    ELSE /\ state' = [state EXCEPT !.isProcessing = FALSE, !.error = msg]
         /\ runs' = RemoveAt(runs, k)
         /\ UNCHANGED hasKey

\* translateChunks has thrown msg to run k
Caught(k, msg) ==
  IF app = "v2" THEN Catch_v2(k, msg)
  ELSE Catch_v1(msg) /\ runs' = RemoveAt(runs, k)

\* the awaited detectLanguage of run k settles with reply and translateChunks
\* is called
DetectSettlesWith(k, reply) ==
  LET st == runs[k].st
      t == translateChunksCall(svc, BatchSizeOf(svc, EngineArg(st)), st.chunks,
                               GroundingArg(st))
  IN
  /\ runs[k].pc = "detect"
  /\ IF t.status = "returned"
       THEN /\ Merged(st, t.results)
            /\ runs' = RemoveAt(runs, k)
       ELSE /\ runs' = [runs EXCEPT ![k] =
                  [@ EXCEPT !.pc = "chunks", !.t = t,
                            !.lang = detectLanguage(reply)]]
            /\ UNCHANGED state
  /\ UNCHANGED <<revision, keyCheck, dialogs, window, libsReady, hasKey, uploads, started, tc, call>>

DetectSettles ==
  \E k \in 1..Len(runs) : \E reply \in DetectReplies : DetectSettlesWith(k, reply)

\* the awaited translateBatch of run k settles with reply
BatchSettlesWith(k, reply) ==
  LET t == translateChunksStep(runs[k].t, reply) IN
  /\ runs[k].pc = "chunks"
  /\ CASE t.status = "returned" ->
            /\ Merged(runs[k].st, t.results)
            /\ runs' = RemoveAt(runs, k)
            /\ UNCHANGED hasKey
       [] t.status = "thrown" -> Caught(k, t.err)
       [] OTHER ->
            /\ runs' = [runs EXCEPT ![k] = [@ EXCEPT !.t = t]]
            /\ UNCHANGED <<hasKey, state>>
  /\ UNCHANGED <<revision, keyCheck, dialogs, window, libsReady, uploads, started, tc, call>>

BatchSettles ==
  \E k \in 1..Len(runs) :
    \E reply \in AppBatchReplies(svc, CurrentBatch(runs[k].t), runs[k].st.targetLang) :
      BatchSettlesWith(k, reply)

\* the Reset Session button of revision v1, rendered with the previews
ResetSession_v1 ==
  /\ app = "v1"
  /\ state.chunks # <<>>
  /\ state' = [state EXCEPT !.chunks = <<>>, !.originalFileName = Null]
  /\ UNCHANGED <<revision, keyCheck, dialogs, window, libsReady, hasKey, uploads, runs, started, tc, call>>

\* the Dismiss button of the error box
DismissError_v1 ==
  /\ app = "v1"
  /\ state.error # Null
  /\ state' = [state EXCEPT !.error = Null]
  /\ UNCHANGED <<revision, keyCheck, dialogs, window, libsReady, hasKey, uploads, runs, started, tc, call>>

\* handleKeySelection from the key banner (no key) or the error box, up to
\* its await
handleKeySelection_v1 ==
  /\ app = "v1"
  /\ hasKey # "true" \/ state.error # Null
  /\ Len(dialogs) < MaxDialogs
  /\ handleKeySelectionCall(state.error)
  /\ UNCHANGED <<revision, keyCheck, window, libsReady, hasKey, state, uploads, runs,
                 started, tc, call>>

\* ------------------------------------------------------------------- App v2
\* handleFileUpload up to its await; the callback keeps state.targetLang.
\* The upload counts twice: for itself and for the run it starts.
handleFileUpload_v2 ==
  /\ app = "v2"
  /\ state.chunks = <<>>
  /\ started + 1 < MaxStarts
  /\ started' = started + 2
  /\ \E file \in Files :
       LET ext == Extension(file) IN
       IF (ext = "docx" /\ ~libsReady.docx) \/ (ext = "pdf" /\ ~libsReady.pdf)
         THEN /\ state' = [state EXCEPT !.error = MsgWarmingUp]
              /\ UNCHANGED uploads
         ELSE /\ state' = [state EXCEPT !.isProcessing = TRUE, !.error = Null,
                                        !.originalFileName = file.name]
              /\ uploads' = Append(uploads, [file |-> file, targetLang |-> state.targetLang])
  /\ UNCHANGED <<revision, keyCheck, dialogs, window, libsReady, hasKey, runs, tc, call>>

\* the awaited processFile settles; on success the chunks are stored and
\* performTranslation(processed.chunks, targetLang) runs up to its first await
processFileSettles_v2 ==
  /\ app = "v2"
  /\ \E k \in 1..Len(uploads) :
       LET file == uploads[k].file
           processed == processFile(file, window)
           stored == [state EXCEPT !.chunks = processed.val.chunks,
                                   !.originalFileData = processed.val.fileData,
                                   !.mimeType = processed.val.mimeType,
                                   !.originalFileType = Extension(file)]
           st == [Closure(stored) EXCEPT !.targetLang = uploads[k].targetLang]
       IN /\ uploads' = RemoveAt(uploads, k)
          /\ IF ~processed.ok
               THEN /\ state' = [state EXCEPT !.isProcessing = FALSE,
                                              !.error = processed.msg]
                    /\ UNCHANGED <<dialogs, runs>>
             ELSE IF ~envKey
               THEN /\ state' = [stored EXCEPT !.isProcessing = FALSE]
                    /\ handleKeySelectionCall(state.error)
                    /\ UNCHANGED runs
             ELSE /\ state' = [stored EXCEPT !.isProcessing = TRUE]
                  /\ runs' = Append(runs, NewRun("detect", st))
                  /\ UNCHANGED dialogs
  /\ UNCHANGED <<revision, keyCheck, hasKey, window, libsReady, started, tc, call>>

\* the key dialog opened by the catch block settles and the error is stored
ReauthSettles_v2 ==
  /\ app = "v2"
  /\ \E k \in 1..Len(runs) :
       /\ runs[k].pc = "reauth"
       /\ \E opened \in openSelectKey :
            hasKey' = IF opened THEN "true" ELSE hasKey
       /\ state' = [state EXCEPT !.isProcessing = FALSE, !.error = runs[k].err]
       /\ runs' = RemoveAt(runs, k)
  /\ UNCHANGED <<revision, keyCheck, dialogs, window, libsReady, uploads, started, tc, call>>

\* how many runs are in flight when the picker is changed in the model
MaxRuns == 2

\* the languages the picker of the document view offers in the model
PickerLanguages == {"en", "fr"}

\* the LanguagePicker of the document view of revision v2 changes: the target
\* language is stored and performTranslation(state.chunks, val) runs up to its
\* first await.  Nothing disables the picker while a run is in flight.
LanguagePickerChange_v2 ==
  /\ app = "v2"
  /\ state.chunks # <<>>
  /\ Len(runs) < MaxRuns
  /\ started < MaxStarts
  /\ started' = started + 1
  /\ \E val \in PickerLanguages \ {state.targetLang} :
       LET st == [Closure(state) EXCEPT !.targetLang = val] IN
       IF ~envKey
         THEN /\ state' = [state EXCEPT !.targetLang = val, !.isProcessing = FALSE]
              /\ handleKeySelectionCall(state.error)
              /\ UNCHANGED runs
         ELSE /\ state' = [state EXCEPT !.targetLang = val, !.isProcessing = TRUE]
              /\ runs' = Append(runs, NewRun("detect", st))
              /\ UNCHANGED dialogs
  /\ UNCHANGED <<revision, keyCheck, hasKey, window, libsReady, uploads, tc, call>>

\* the output-language picker of the control bar of v1, shown with the
\* document: onChange={(val) => setState(p => ({...p, targetLang: val}))}
LanguagePickerChange_v1 ==
  /\ app = "v1"
  /\ state.chunks # <<>>
  /\ started < MaxStarts
  /\ started' = started + 1
  /\ \E val \in PickerLanguages \ {state.targetLang} :
       state' = [state EXCEPT !.targetLang = val]
  /\ UNCHANGED <<revision, keyCheck, hasKey, dialogs, window, libsReady, uploads,
                 runs, tc, call>>

\* the output-language picker of the upload screen of v2, shown while there
\* are no chunks: the same setState, and no translation is started
LanguagePickerChange_upload_v2 ==
  /\ app = "v2"
  /\ state.chunks = <<>>
  /\ started < MaxStarts
  /\ started' = started + 1
  /\ \E val \in PickerLanguages \ {state.targetLang} :
       state' = [state EXCEPT !.targetLang = val]
  /\ UNCHANGED <<revision, keyCheck, hasKey, dialogs, window, libsReady, uploads,
                 runs, tc, call>>

\* the reset button of revision v2, rendered with the previews
reset_v2 ==
  /\ app = "v2"
  /\ state.chunks # <<>>
  /\ state' = [state EXCEPT !.chunks = <<>>, !.originalFileName = Null,
                            !.error = Null]
  /\ UNCHANGED <<revision, keyCheck, dialogs, window, libsReady, hasKey, uploads, runs, started, tc, call>>

\* handleKeySelection from the key banner, shown while hasKey is false, up
\* to its await
handleKeySelection_v2 ==
  /\ app = "v2"
  /\ hasKey = "false"
  /\ Len(dialogs) < MaxDialogs
  /\ handleKeySelectionCall(state.error)
  /\ UNCHANGED <<revision, keyCheck, hasKey, window, libsReady, state, uploads, runs,
                 started, tc, call>>

\* ----------------------------------------------------- service-level actions
\* no function call is being looked at
NoCall == [fn |-> "none", arg |-> <<>>, done |-> FALSE, result |-> <<>>]

AppIdle ==
  /\ app = "v1" /\ svc = "B" /\ envKey = TRUE
  /\ window = [mammoth |-> FALSE, pdfjsLib |-> FALSE]
  /\ libsReady = [docx |-> FALSE, pdf |-> FALSE]
  /\ hasKey = "true"
  /\ keyCheck = TRUE
  /\ dialogs = <<>>
  /\ state = InitialState
  /\ uploads = <<>>
  /\ runs = <<>>
  /\ started = 0

\* the lengths of the longer chunk sequences of a job: for each number of
\* batches up to MaxBatch the length that fills them, and the length that
\* leaves one chunk to the next batch
JobLengths(batchSize) ==
  {k * batchSize : k \in 1..MaxBatch} \cup {k * batchSize + 1 : k \in 1..(MaxBatch - 1)}

\* translateChunks is about to be called by one of the revisions with an
\* engine, which fixes BATCH_SIZE, a chunk sequence and the grounding flag
InitBatch ==
  /\ \E r \in Revs, engine \in {FLASH, PRO}, g \in BOOLEAN :
       \E c \in SeqsOfLengths(InputChunks, MaxChunks,
                              JobLengths(BatchSizeOf(r, engine))) :
         tc = [Idle EXCEPT !.rev = r, !.BATCH_SIZE = BatchSizeOf(r, engine),
                           !.chunks = c, !.useGrounding = g]
  /\ AppIdle
  /\ call = NoCall

TCCall ==
  /\ tc.status = "idle"
  /\ tc' = translateChunksCall(tc.rev, tc.BATCH_SIZE, tc.chunks, tc.useGrounding)
  /\ UNCHANGED <<appVars, call>>

TCBatch ==
  /\ tc.status = "running"
  /\ \E reply \in Replies(tc.rev, Len(CurrentBatch(tc))) :
       tc' = translateChunksStep(tc, reply)
  /\ UNCHANGED <<appVars, call>>

NextBatch == TCCall \/ TCBatch

SpecBatch == InitBatch /\ [][NextBatch]_vars

\* ---------------------------------------------------- the App specifications
\* the App after its construction and the synchronous part of its mount
\* effect: the first checkLibs() has seen neither engine, and revision v2
\* has called setHasKey(true) if the environment holds a key
Mounted(a, s) ==
  /\ app = a
  /\ svc = s
  /\ envKey \in BOOLEAN
  /\ window = [mammoth |-> FALSE, pdfjsLib |-> FALSE]
  /\ libsReady = [docx |-> FALSE, pdf |-> FALSE]
  /\ hasKey = "true"
  /\ keyCheck = ~(a = "v2" /\ envKey)
  /\ dialogs = <<>>
  /\ state = InitialState
  /\ uploads = <<>>
  /\ runs = <<>>
  /\ started = 0
  /\ tc = Idle
  /\ call = NoCall

\* App v1 over service revision B
Init == Mounted("v1", "B")

\* App v1 over service revision C
InitC == Mounted("v1", "C")

\* App v2 over service revision A
InitV2 == Mounted("v2", "A")

Next ==
  \/ checkLibs
  \/ checkKeyStatus
  \/ openSelectKeySettles
  \/ handleFileUpload_v1
  \/ processFileSettles_v1
  \/ startTranslation_v1
  \/ VisionSettles
  \/ DetectSettles
  \/ BatchSettles
  \/ ResetSession_v1
  \/ DismissError_v1
  \/ handleKeySelection_v1
  \/ LanguagePickerChange_v1

NextV2 ==
  \/ checkLibs
  \/ checkKeyStatus
  \/ openSelectKeySettles
  \/ handleFileUpload_v2
  \/ processFileSettles_v2
  \/ DetectSettles
  \/ BatchSettles
  \/ ReauthSettles_v2
  \/ LanguagePickerChange_v2
  \/ LanguagePickerChange_upload_v2
  \/ reset_v2
  \/ handleKeySelection_v2

Spec == Init /\ [][Next]_vars

SpecC == InitC /\ [][Next]_vars

\* App v1 over service revision B when every model call settles: an awaited
\* call of the model returns or fails, it does not stay pending for ever
SpecLive ==
  /\ Init /\ [][Next]_vars
  /\ WF_vars(VisionSettles) /\ WF_vars(DetectSettles) /\ WF_vars(BatchSettles)

SpecV2 == InitV2 /\ [][NextV2]_vars

\* ===================================================== the batch translator
\* the log entry of a batch call whose reply failed: a rejected call, a reply
\* that is not a JSON array, or an array of the wrong length
FailedReply(entry) ==
  \/ entry.reply.kind \in {"reject", "garbage", "null", "object"}
  \/ entry.reply.kind = "array" /\ Len(entry.reply.arr) # Len(entry.batch)

WrongLength(entry) ==
  entry.reply.kind = "array" /\ Len(entry.reply.arr) # Len(entry.batch)

\* C1: when translateChunks of revision B or C returns normally, the array it
\* returns holds exactly as many strings as there were input chunks, for every
\* chunk sequence, every batch size and every length of the model's replies.
C1_LengthPreserved ==
  (tc.rev \in {"B", "C"} /\ tc.status = "returned")
    => Len(tc.results) = Len(tc.chunks)

\* a call of revision C over several batches has returned although one reply
\* was an array of the wrong length
C1_Witness ==
  /\ tc.rev = "C"
  /\ tc.status = "returned"
  /\ Len(tc.log) >= 2
  /\ \E k \in 1..Len(tc.log) : WrongLength(tc.log[k])

\* C2: for every empty-line chunk the string translateBatch produces for its
\* position, and the translatedText merged onto it after the call, is the
\* empty string whatever the model returned at that position.
C2_EmptyLineStaysEmpty ==
  tc.rev \in {"B", "C"} =>
    /\ \A k \in 1..Len(tc.log) :
         tc.log[k].out.ok =>
           \A j \in 1..Len(tc.log[k].batch) :
             tc.log[k].batch[j].type = "empty-line"
               => JsIndex(tc.log[k].out.val, j - 1) = EmptyText
    /\ tc.status = "returned" =>
         \A i \in 1..Len(tc.chunks) :
           tc.chunks[i].type = "empty-line"
             => MergeTranslations(tc.chunks, tc.results)[i].translatedText = EmptyText

\* C3: in revision B the batches are the consecutive slices of the input in
\* input order and the i-th string of the results is the model's reply at
\* position (i mod batch size) of the batch holding chunk i, or the empty
\* string when that reply is the sentinel.
C3_OrderPreserved ==
  tc.rev = "B" =>
    /\ \A k \in 1..Len(tc.log) :
         /\ tc.log[k].at = (k - 1) * tc.BATCH_SIZE
         /\ tc.log[k].batch = JsSlice(tc.chunks, (k - 1) * tc.BATCH_SIZE,
                                      k * tc.BATCH_SIZE)
    /\ \A i \in 0..(Len(tc.results) - 1) :
         LET val == tc.log[(i \div tc.BATCH_SIZE) + 1].reply.arr[(i % tc.BATCH_SIZE) + 1]
         IN JsIndex(tc.results, i) = IF val = SKIP THEN EmptyText ELSE val

\* a call of revision B has returned after several batches whose replies
\* differ from one another
C3_Witness ==
  /\ tc.rev = "B"
  /\ tc.status = "returned"
  /\ Len(tc.log) >= 2
  /\ tc.results[1] # tc.results[Len(tc.results)]

\* C4: in revisions A and C a reply that is a JSON array of the wrong length
\* makes the whole batch fail: the call throws or gives the batch's original
\* texts, and no string of the reply becomes a translation.
C4_WrongLengthNeverAccepted ==
  tc.rev \in {"A", "C"} =>
    \A k \in 1..Len(tc.log) :
      WrongLength(tc.log[k]) =>
        \/ ~tc.log[k].out.ok
        \/ tc.log[k].out.val = Originals(tc.log[k].batch)

\* C6: within one job of revision C every failed batch is handled by the same
\* policy: the failures all propagate or all degrade to the original texts.
C6_UniformPolicy ==
  tc.rev = "C" =>
    \A j, k \in 1..Len(tc.log) :
      (FailedReply(tc.log[j]) /\ FailedReply(tc.log[k]))
        => (tc.log[j].out.ok <=> tc.log[k].out.ok)

\* ======================================================== the orchestrator
\* the log entry the batch call of run k would get with reply
PendingCall(k, reply) == [batch |-> CurrentBatch(runs[k].t), reply |-> reply]

\* C5: in App v1 over service revision B, when a batch call of a run fails
\* (model or network error, unparseable JSON, wrong-length reply) the run
\* ends in the catch block: error is set, isProcessing is false and the
\* chunks of the job are the ones the run started with; the batches that
\* succeed before it write nothing into the job state.
C5_BatchFailureHaltsJob ==
  [][\A k \in 1..Len(runs) :
       runs[k].pc = "chunks" =>
         \A reply \in AppBatchReplies(svc, CurrentBatch(runs[k].t),
                                      runs[k].st.targetLang) :
           BatchSettlesWith(k, reply) =>
             /\ FailedReply(PendingCall(k, reply)) =>
                  /\ state'.error # Null
                  /\ state'.isProcessing = FALSE
                  /\ state'.chunks = runs[k].st.chunks
                  /\ runs' = RemoveAt(runs, k)
             /\ Len(runs') = Len(runs) => state' = state]_vars

\* C7: a run started for a job whose extracted chunk sequence is empty while
\* the file's bytes are not goes to translateScannedDocument, never to
\* detectLanguage and translateChunks.
C7_VisionFallbackChosen ==
  \A k \in 1..Len(runs) :
    (runs[k].st.chunks = <<>> /\ ~Falsy(runs[k].st.originalFileData))
      => runs[k].pc = "vision"

\* C8: once the chunk sequence is empty (after a reset) it stays empty until
\* a file has been extracted: no run in flight writes chunks into it.
C8_ResetStaysEmpty ==
  [][(state.chunks = <<>> /\ state'.chunks # <<>>)
       => Len(uploads') < Len(uploads)]_vars

\* C9: at most one translation run is in flight at any moment.
C9_SingleRun == Len(runs) <= 1

\* what translateScannedDocument of revision C raises for a failed reply
VisionFailure(reply) == ~translateScannedDocument("C", reply).ok

\* C10: every failure inside translateScannedDocument raises the
\* vision-engine-failed error, and startTranslation halts the job with that
\* error, isProcessing false, no chunk replaced and no translateChunks call.
C10_AlwaysVisionFailed ==
  [][\A k \in 1..Len(runs) :
       runs[k].pc = "vision" =>
         \A reply \in VisionReplies(runs[k].st.targetLang) :
           (VisionFailure(reply) /\ VisionSettlesWith(k, reply)) =>
             /\ translateScannedDocument(svc, reply).msg = MsgVisionFailedC
             /\ state'.error = MsgVisionFailedC
             /\ state'.isProcessing = FALSE
             /\ state'.chunks = state.chunks
             /\ runs' = RemoveAt(runs, k)]_vars

\* a model call rejected for authentication or authorization reasons
AuthRejection(reply) ==
  reply.kind = "reject"
    /\ (IncludesEntityNotFound(reply.msg) \/ IncludesApiKey(reply.msg))

\* C11: when the model rejects a call for authentication reasons, on the
\* batch path or on the vision path, the run ends with the re-authentication
\* message as error and hasKey false.
C11_AuthRejectionIsDistinct ==
  [][\A k \in 1..Len(runs) :
       /\ runs[k].pc = "chunks" =>
            \A reply \in AppBatchReplies(svc, CurrentBatch(runs[k].t),
                                         runs[k].st.targetLang) :
              (AuthRejection(reply) /\ BatchSettlesWith(k, reply)) =>
                /\ state'.error = MsgAuthV1
                /\ hasKey' = "false"
                /\ runs' = RemoveAt(runs, k)
       /\ runs[k].pc = "vision" =>
            \A reply \in VisionReplies(runs[k].st.targetLang) :
              (AuthRejection(reply) /\ VisionSettlesWith(k, reply)) =>
                /\ state'.error = MsgAuthV1
                /\ hasKey' = "false"
                /\ runs' = RemoveAt(runs, k)]_vars

\* ========================================================== detectLanguage
\* how long a text the model may reply to detectLanguage
MaxText == 3

\* the characters of those replies
ReplyChars == {" ", "F", "r", "E"}

\* a call of fn with arg, before it returns
Call(fn, arg) == [fn |-> fn, arg |-> arg, done |-> FALSE, result |-> <<>>]

\* the App is idle and translateChunks is not running
Quiet == AppIdle /\ tc = Idle

\* detectLanguage is called and the model will reject the call or answer
\* with a text of up to MaxText characters (the empty text included)
InitDetect ==
  /\ Quiet
  /\ call \in {Call("detectLanguage", r) :
                 r \in {Reject(m) : m \in ModelErrors}
                         \cup {Text(t) : t \in SeqsUpTo(ReplyChars, MaxText)}}

detectLanguageReturns ==
  /\ call.fn = "detectLanguage"
  /\ ~call.done
  /\ call' = [call EXCEPT !.done = TRUE, !.result = detectLanguage(call.arg)]
  /\ UNCHANGED <<appVars, tc>>

SpecDetect == InitDetect /\ [][detectLanguageReturns]_vars

\* ============================================================== processFile
\* how many pages a PDF has and how many nodes the body of a converted Word
\* document has
MaxPages == 2
MaxNodes == 2
\* how many fragments the page of a one-page PDF has
MaxFragments == 3

\* a File object; the contents are filled in per kind
File(name, type) ==
  [name |-> name, type |-> type, size |-> 1, corrupt |-> FALSE,
   readable |-> TRUE,
   text |-> <<>>, pages |-> <<>>, html |-> <<>>]

\* text files: every text of up to MaxText characters, with both line endings
TxtChars == {"a", " ", "\n", "\r"}
TxtFiles ==
  {[File(<<"notes", e>>, "") EXCEPT !.text = t] :
     e \in {"txt", "TXT"}, t \in SeqsUpTo(TxtChars, MaxText)}

\* an item of page.getTextContent(): its string and transform[5]
Fragment(str, y) == [str |-> str, y |-> y]

\* the fragments of the one-page documents: a word or a blank, at heights that
\* are equal, LINE_THRESHOLD apart or further apart, or -1
Fragments == {Fragment(str, y) : str \in {<<"a">>, <<" ">>}, y \in {700, 690, 680, -1}}

\* PDF files: up to MaxPages pages without fragments, with one fragment, with
\* two fragments on two lines (getDocument rejects the corrupt ones), and
\* documents of one page of up to MaxFragments fragments
PdfFiles ==
  LET Pages == {<<>>, <<Fragment(<<"a">>, 700)>>,
                <<Fragment(<<"a">>, 700), Fragment(<<"b">>, 680)>>}
  IN {[File(<<"scan", e>>, ty) EXCEPT !.pages = pp, !.corrupt = c] :
        e \in {"pdf", "PDF"}, ty \in {"", "application/pdf"}, c \in BOOLEAN,
        pp \in SeqsUpTo(Pages, MaxPages)}
     \cup {[File(<<"report", "pdf">>, "application/pdf") EXCEPT !.pages = <<page>>] :
             page \in SeqsUpTo(Fragments, MaxFragments)}

\* <p>text</p>
P(text) == Element("p", <<TextNode(text)>>)

\* the nodes mammoth's markup is made of: paragraphs with and without a
\* leading checkbox glyph, a heading, a list, a table of one cell (with text,
\* empty, with a paragraph), a container of a paragraph and a line break, a
\* line break, bare text
DocxNodes ==
  {P(t) : t \in {<<"a">>, <<" ">>,
                 <<"[", " ", "]", "a">>, <<"[", "x", "]", "a">>, <<"[", "X", "]">>,
                 <<"(", "x", ")", "a">>, <<BALLOT_BOX, "a">>, <<CHECKED_BOX, "a">>,
                 <<CROSSED_BOX>>, <<BALLOT_BOX, "a", CHECKED_BOX>>,
                 <<"[", " ", "]", CROSSED_BOX>>}}
    \cup {Element("h1", <<TextNode(<<"T">>)>>),
          Element("ul", <<Element("li", <<TextNode(<<"b">>)>>)>>),
          Element("table", <<Element("tr", <<Element("td", <<TextNode(<<"d">>)>>)>>)>>),
          Element("table", <<Element("tr", <<Element("td", <<>>)>>)>>),
          Element("table", <<Element("tr", <<Element("td", <<P(<<"e">>)>>)>>)>>),
          Element("div", <<P(<<"f">>), Element("br", <<>>)>>),
          Element("br", <<>>),
          TextNode(<<"c">>)}

\* Word files: a body of up to MaxNodes nodes; convertToHtml rejects the
\* corrupt ones
DocxFiles ==
  {[File(<<"form", e>>, "") EXCEPT !.html = h, !.corrupt = c] :
     e \in {"docx", "DOCX"}, c \in BOOLEAN, h \in SeqsUpTo(DocxNodes, MaxNodes)}

\* files of other kinds, a name without extension included
OtherFiles ==
  {File(n, ty) : n \in {<<"setup", "exe">>, <<"README">>, <<"old", "DOC">>,
                        <<"scan", "pdf", "bak">>, <<"notes", "txt", "">>},
                 ty \in {"", "application/pdf"}}

\* files the reader fails on: one of each kind
UnreadableFiles == {[f EXCEPT !.readable = FALSE] : f \in Files \cup OtherFiles}

ExtractFiles == TxtFiles \cup PdfFiles \cup DocxFiles \cup OtherFiles \cup UnreadableFiles

\* which conversion engines the page has loaded
Windows == [mammoth : BOOLEAN, pdfjsLib : BOOLEAN]

\* processFile is called with a file while win holds the engines
InitExtract ==
  /\ Quiet
  /\ call \in {Call("processFile", [file |-> f, win |-> w]) :
                 f \in ExtractFiles, w \in Windows}

processFileReturns ==
  /\ call.fn = "processFile"
  /\ ~call.done
  /\ call' = [call EXCEPT !.done = TRUE,
                          !.result = processFile(call.arg.file, call.arg.win)]
  /\ UNCHANGED <<appVars, tc>>

SpecExtract == InitExtract /\ [][processFileReturns]_vars

\* processFile has returned for a file of the set fs
Extracted(fs) == call.fn = "processFile" /\ call.done /\ call.arg.file \in fs

\* =================================================== preview and export
\* how many chunks the rendered document has
MaxRender == 5

\* the loop of renderContent: renderedElements so far and the table cells
\* collected since the last flush.  renderTable makes one table of the cells
\* (its rows and columns come from metadata.row and metadata.col, which no
\* extraction sets, so the cells stay in their order); renderChunk makes one
\* standalone block of a chunk, keyed by the chunk's id, or by its 0-based
\* position if the chunk is an empty line.  index is the position forEach
\* has come to.
RECURSIVE renderLoop(_, _, _, _)
renderLoop(chunks, index, renderedElements, currentTableCells) ==
  LET renderTable(cells) ==
        [kind |-> "table", key |-> <<"table-", cells[1].id>>, items |-> cells]
      renderChunk(chunk, idx) ==
        [kind |-> "chunk",
         key |-> IF chunk.type = "empty-line" THEN <<"empty-", idx>> ELSE chunk.id,
         items |-> <<chunk>>]
      flushTable ==
        IF Len(currentTableCells) > 0
          THEN Append(renderedElements, renderTable(currentTableCells))
          ELSE renderedElements
  IN IF index >= Len(chunks) THEN flushTable
     ELSE IF chunks[index + 1].type = "table-cell"
       THEN renderLoop(chunks, index + 1, renderedElements,
                       Append(currentTableCells, chunks[index + 1]))
       ELSE renderLoop(chunks, index + 1,
                       Append(flushTable, renderChunk(chunks[index + 1], index)), <<>>)

\* a renderContent that flushes the table after every cell
renderContent_TablePerCell(chunks) ==
  [k \in 1..Len(chunks) |->
     [kind |-> IF chunks[k].type = "table-cell" THEN "table" ELSE "chunk",
      key |-> chunks[k].id, items |-> <<chunks[k]>>]]

renderContent(chunks) == renderLoop(chunks, 0, <<>>, <<>>)

\* a piece of the markup of the exported document
Markup(tag, text) == [tag |-> tag, text |-> text]
TableOpen == Markup("<table><tr>", <<>>)
TableClose == Markup("</tr></table>", <<>>)

\* the loop of handleDownloadDoc over state.chunks: bodyContent so far and
\* the inTable flag
RECURSIVE exportLoop(_, _, _, _)
exportLoop(chunks, mode, bodyContent, inTable) ==
  LET chunk == Head(chunks)
      text == IF mode = "translated"
                THEN JsOr(chunk.translatedText, chunk.originalText)
                ELSE chunk.originalText
      closed == IF inTable THEN Append(bodyContent, TableClose) ELSE bodyContent
      opened == IF ~inTable THEN Append(bodyContent, TableOpen) ELSE bodyContent
  IN IF chunks = <<>> THEN closed
     ELSE IF chunk.type = "empty-line"
       THEN exportLoop(Tail(chunks), mode, Append(closed, Markup("div", <<>>)), FALSE)
     ELSE IF chunk.type = "table-cell"
       THEN exportLoop(Tail(chunks), mode, Append(opened, Markup("td", text)), TRUE)
     ELSE IF chunk.type = "heading"
       THEN exportLoop(Tail(chunks), mode, Append(closed, Markup("h", text)), FALSE)
     ELSE IF chunk.type = "checkbox"
       THEN exportLoop(Tail(chunks), mode,
              Append(closed, Markup("p", <<IF chunk.metadata.isChecked
                                             THEN CHECKED_BOX ELSE BALLOT_BOX>> \o text)),
              FALSE)
     ELSE exportLoop(Tail(chunks), mode, Append(closed, Markup("p", text)), FALSE)

\* handleDownloadDoc: nothing is exported when there is no content; otherwise
\* body is the bodyContent of the document handed to the browser
handleDownloadDoc(chunks, mode) ==
  LET hasContent == IF mode = "original" THEN Len(chunks) > 0
                    ELSE \E k \in 1..Len(chunks) : ~Falsy(chunks[k].translatedText)
  IN IF ~hasContent THEN [exported |-> FALSE, body |-> <<>>]
     ELSE [exported |-> TRUE, body |-> exportLoop(chunks, mode, <<>>, FALSE)]

\* the documents handed to the preview and to the export: every sequence of
\* up to MaxRender chunks of four kinds, the k-th chunk holding the text "x" k,
\* before translation and after it (translated to "y" k)
RenderChunks ==
  {[k \in 1..Len(types) |->
      [MkChunk(<<"c-", k>>, types[k],
               IF types[k] = "empty-line" THEN EmptyText ELSE <<"x", k>>)
         EXCEPT !.metadata = [alignment |-> "left"],
                !.translatedText = IF ~translated THEN Undefined
                                   ELSE IF types[k] = "empty-line" THEN EmptyText
                                   ELSE <<"y", k>>]] :
     types \in SeqsUpTo({"table-cell", "paragraph", "heading", "empty-line"}, MaxRender),
     translated \in BOOLEAN}

InitRender ==
  /\ Quiet
  /\ call \in {Call("renderContent", [chunks |-> c, mode |-> m]) :
                 c \in RenderChunks, m \in {"original", "translated"}}
            \cup {Call("handleDownloadDoc", [chunks |-> c, mode |-> m]) :
                    c \in RenderChunks, m \in {"original", "translated"}}

renderContentReturns ==
  /\ call.fn = "renderContent"
  /\ ~call.done
  /\ call' = [call EXCEPT !.done = TRUE, !.result = renderContent(call.arg.chunks)]
  /\ UNCHANGED <<appVars, tc>>

handleDownloadDocReturns ==
  /\ call.fn = "handleDownloadDoc"
  /\ ~call.done
  /\ call' = [call EXCEPT !.done = TRUE,
                          !.result = handleDownloadDoc(call.arg.chunks, call.arg.mode)]
  /\ UNCHANGED <<appVars, tc>>

SpecRender == InitRender /\ [][renderContentReturns \/ handleDownloadDocReturns]_vars

\* ============================================================= pasted text
\* the Process Text button of the App of src/unnamed/part_002:
\* setState(p => ({...p, originalFileName: 'Manual_Entry', chunks:
\*   rawText.split('\n').filter(l => l.trim())
\*          .map((l, i) => ({id: `t-${i}`, type: 'paragraph', originalText: l}))}))
\* ProcessText is the chunks it builds
ProcessText(rawText) ==
  LET lines == SplitLines_LFOnly(rawText, <<>>)
      kept == SelectSeq(lines, LAMBDA l : Trim(l) # <<>>)
  IN [i \in 1..Len(kept) |-> MkChunk(<<"t-", i - 1>>, "paragraph", kept[i])]

\* the characters of the text area; its value has LF line endings
PasteChars == {"a", "b", " ", "\n"}

InitPaste ==
  /\ Quiet
  /\ call \in {Call("ProcessText", t) : t \in SeqsUpTo(PasteChars, MaxText)}

\* the click on Process Text with call.arg in the text area: the handler
\* writes the chunks and the file name to the state and returns nothing
ProcessTextReturns ==
  /\ call.fn = "ProcessText"
  /\ ~call.done
  /\ state' = [state EXCEPT !.originalFileName = <<"Manual_Entry">>,
                            !.chunks = ProcessText(call.arg)]
  /\ call' = [call EXCEPT !.done = TRUE, !.result = Undefined]
  /\ UNCHANGED <<app, svc, envKey, window, libsReady, hasKey, keyCheck, dialogs,
                 uploads, runs, started, tc>>

SpecPaste == InitPaste /\ [][ProcessTextReturns]_vars

LowercaseLetters ==
  {"a", "b", "c", "d", "e", "f", "g", "h", "i", "j", "k", "l", "m",
   "n", "o", "p", "q", "r", "s", "t", "u", "v", "w", "x", "y", "z"}

\* C12: detectLanguage returns a string of exactly two lowercase letters for
\* every model reply and on every failure of the call.
C12_TwoLowercaseLetters ==
  (call.fn = "detectLanguage" /\ call.done) =>
    /\ Len(call.result) = 2
    /\ \A k \in 1..Len(call.result) : call.result[k] \in LowercaseLetters

\* C13: a failed language detection does not block or fail the job:
\* detectLanguage returns "en", the step sets no error and the run goes on to
\* translateChunks with that code.
C13_DetectionFailureAbsorbed ==
  [][\A k \in 1..Len(runs) : \A reply \in DetectReplies :
       (reply.kind = "reject" /\ runs[k].pc = "detect" /\ DetectSettlesWith(k, reply)) =>
         /\ state'.error = state.error
         /\ hasKey' = hasKey
         /\ LET st == runs[k].st
                t == translateChunksCall(svc, BatchSizeOf(svc, EngineArg(st)), st.chunks,
                               GroundingArg(st))
            IN IF t.status = "returned"
                 THEN runs' = RemoveAt(runs, k) /\ ~state'.isProcessing
                 ELSE /\ Len(runs') = Len(runs)
                      /\ runs'[k].pc = "chunks"
                      /\ runs'[k].lang = <<"e", "n">>
                      /\ runs'[k].t = t]_vars

\* a run whose detection was rejected is translating its chunks with "en"
C13_Witness ==
  \E k \in 1..Len(runs) :
    /\ runs[k].pc = "chunks"
    /\ runs[k].lang = <<"e", "n">>
    /\ runs[k].t.status = "running"
    /\ state.error = Null

\* C14: when no page of a readable PDF has a text fragment, processPdf returns
\* the empty chunk sequence without raising and processFile returns it with
\* the file's base64 bytes and MIME type.
C14_ImageOnlyPdfYieldsNoChunks ==
  (/\ Extracted(PdfFiles)
   /\ call.arg.win.pdfjsLib /\ ~call.arg.file.corrupt
   /\ \A k \in 1..Len(call.arg.file.pages) : call.arg.file.pages[k] = <<>>) =>
    /\ processPdf(call.arg.file) = Ok(<<>>)
    /\ call.result.ok
    /\ call.result.val.chunks = <<>>
    /\ call.result.val.fileData = toBase64(call.arg.file).val
    /\ call.result.val.mimeType =
         (IF call.arg.file.type # "" THEN call.arg.file.type ELSE "application/pdf")

\* processFile has returned for a PDF of two pages without any fragment
C14_Witness ==
  /\ Extracted(PdfFiles)
  /\ call.arg.win.pdfjsLib /\ ~call.arg.file.corrupt
  /\ call.arg.file.pages = << <<>>, <<>> >>
  /\ call.result.ok /\ call.result.val.chunks = <<>>

\* the extension of the file is none of the three supported ones
Unsupported(file) == Extension(file) \notin {"txt", "docx", "pdf"}

\* C15: processFile fails with the unsupported-format error for every file
\* whose lower-cased extension is not txt, docx or pdf, whatever engines are
\* loaded, and when the upload of such a file settles the chunks stay as they
\* were, error is set and isProcessing is false.
C15_UnsupportedFormatRejected ==
  [][\A k \in 1..Len(uploads) :
       (/\ Unsupported(uploads[k].file)
        /\ processFileSettles_v1
        /\ uploads' = RemoveAt(uploads, k)) =>
            /\ \A w \in Windows :
                 processFile(uploads[k].file, w) = Throw(MsgUnsupported)
            /\ state'.chunks = state.chunks
            /\ state'.error = <<"Upload Failed: ">> \o MsgUnsupported
            /\ ~state'.isProcessing]_vars

\* the texts of the text nodes of a sequence of nodes
RECURSIVE TextsOf(_)
TextsOf(nodes) ==
  IF nodes = <<>> THEN {}
  ELSE (IF Head(nodes).tag = "#text" THEN {Head(nodes).text}
        ELSE TextsOf(Head(nodes).children)) \cup TextsOf(Tail(nodes))

\* C16: Word extraction drops no content silently: when processFile returns
\* chunks for a converted document, every non-blank text of its markup tree
\* is part of the originalText of some chunk.
C16_NoTextDropped ==
  (Extracted(DocxFiles) /\ call.result.ok) =>
    \A t \in TextsOf(call.arg.file.html) :
      Trim(t) # <<>> =>
        \E k \in 1..Len(call.result.val.chunks) :
          Contains(call.result.val.chunks[k].originalText, Trim(t))

\* C17: a Word paragraph that begins with a checkbox glyph becomes a checkbox
\* chunk whose checked flag is set only when that leading glyph is a filled
\* one, whatever follows it.
C17_CheckedOnlyWhenLeadingGlyphFilled ==
  (Extracted(DocxFiles) /\ call.result.ok) =>
    \A k \in 1..Len(call.result.val.chunks) :
      LET c == call.result.val.chunks[k]
          text == c.originalText
          unfilled == \/ (Len(text) >= 3 /\ SubSeq(text, 1, 3) = <<"[", " ", "]">>)
                      \/ (Len(text) >= 1 /\ text[1] = BALLOT_BOX)
          filled == \/ (Len(text) >= 3 /\ SubSeq(text, 1, 3) \in
                          {<<"[", "x", "]">>, <<"[", "X", "]">>, <<"(", "x", ")">>})
                    \/ (Len(text) >= 1 /\ text[1] \in {CHECKED_BOX, CROSSED_BOX})
      IN (Head(c.id) = "docx-p-" /\ (unfilled \/ filled)) =>
           /\ c.type = "checkbox"
           /\ c.metadata.isChecked => filled

\* the blocks the exported markup is made of: what stands between a table
\* opening and its closing is one table, every other piece is a block of its
\* own; a cell outside a table or a block inside one is "stray"
RECURSIVE MarkupBlocks(_, _, _, _)
MarkupBlocks(body, blocks, cells, inTable) ==
  IF body = <<>>
    THEN IF inTable THEN Append(blocks, [kind |-> "stray", items |-> cells]) ELSE blocks
  ELSE LET m == Head(body) IN
    IF m = TableOpen
      THEN IF inTable THEN <<[kind |-> "stray", items |-> <<>>]>>
           ELSE MarkupBlocks(Tail(body), blocks, <<>>, TRUE)
    ELSE IF m = TableClose
      THEN IF ~inTable THEN <<[kind |-> "stray", items |-> <<>>]>>
           ELSE MarkupBlocks(Tail(body), Append(blocks, [kind |-> "table", items |-> cells]),
                             <<>>, FALSE)
    ELSE IF inTable
      THEN IF m.tag = "td" THEN MarkupBlocks(Tail(body), blocks, Append(cells, m.text), TRUE)
           ELSE <<[kind |-> "stray", items |-> <<>>]>>
    ELSE MarkupBlocks(Tail(body),
                      Append(blocks, [kind |-> IF m.tag = "td" THEN "stray" ELSE "chunk",
                                      items |-> <<m.text>>]),
                      <<>>, FALSE)

\* the items of a sequence of blocks, in order
RECURSIVE Flatten(_)
Flatten(blocks) ==
  IF blocks = <<>> THEN <<>> ELSE Head(blocks).items \o Flatten(Tail(blocks))

\* blocks group chunks by maximal runs of table cells: the items of the blocks
\* are the chunks (as label shows them) in chunk order, a table holds one or
\* more table cells and nothing else, any other block holds one chunk that is
\* no table cell, and no table follows a table
Grouped(blocks, chunks, label(_)) ==
  /\ Flatten(blocks) = [k \in 1..Len(chunks) |-> label(chunks[k])]
  /\ \A b \in 1..Len(blocks) :
       LET first == Len(Flatten(SubSeq(blocks, 1, b - 1))) + 1
           last == first + Len(blocks[b].items) - 1
       IN /\ blocks[b].kind \in {"table", "chunk"}
          /\ last >= first
          /\ blocks[b].kind = "table" =>
               \A k \in first..last : chunks[k].type = "table-cell"
          /\ blocks[b].kind = "chunk" =>
               first = last /\ chunks[first].type # "table-cell"
  /\ \A b \in 1..(Len(blocks) - 1) :
       ~(blocks[b].kind = "table" /\ blocks[b + 1].kind = "table")

\* C18: the preview and the export turn every maximal run of consecutive
\* table-cell chunks into exactly one table holding exactly the cells of the
\* run, and every other chunk into a block of its own, in chunk order.
C18_TableRunsGrouped ==
  /\ (call.fn = "renderContent" /\ call.done) =>
       LET Same(c) == c IN Grouped(call.result, call.arg.chunks, Same)
  /\ (call.fn = "handleDownloadDoc" /\ call.done /\ call.result.exported) =>
       LET Shown(c) == IF c.type = "empty-line" THEN <<>>
                       ELSE IF call.arg.mode = "translated" /\ ~Falsy(c.translatedText)
                         THEN c.translatedText
                       ELSE c.originalText
       IN Grouped(MarkupBlocks(call.result.body, <<>>, <<>>, FALSE),
                  call.arg.chunks, Shown)

\* the preview has rendered p, t, t, t, p as a block, one table of three
\* cells and a block
C18_Witness ==
  /\ call.fn = "renderContent" /\ call.done
  /\ [k \in 1..Len(call.arg.chunks) |-> call.arg.chunks[k].type]
       = <<"paragraph", "table-cell", "table-cell", "table-cell", "paragraph">>
  /\ [b \in 1..Len(call.result) |-> call.result[b].kind] = <<"chunk", "table", "chunk">>
  /\ Len(call.result[2].items) = 3

\* C19: for a text with a non-blank line, processTxt marks exactly the chunk
\* of the first non-blank line as heading (level 1, bold), wherever that line
\* stands, and every other non-blank line as paragraph.
C19_FirstNonBlankLineIsHeading ==
  (Extracted(TxtFiles) /\ call.result.ok) =>
    LET chunks == call.result.val.chunks
        nonBlank == {k \in 1..Len(chunks) : Trim(SplitLines(call.arg.file.text, <<>>)[k]) # <<>>}
    IN nonBlank # {} =>
         LET first == CHOOSE k \in nonBlank : \A j \in nonBlank : k <= j
         IN /\ chunks[first].type = "heading"
            /\ chunks[first].metadata.level = 1
            /\ chunks[first].metadata.isBold
            /\ \A k \in nonBlank \ {first} : chunks[k].type = "paragraph"

\* the positions of the line feeds of a text
LineFeeds(text) == {k \in 1..Len(text) : text[k] = "\n"}

\* the n-th line of a text (n from 1): what stands between the line feeds
\* around it, without the carriage return that precedes the closing line feed
LineAt(text, n) ==
  LET before == IF n = 1 THEN 0
                ELSE CHOOSE p \in LineFeeds(text) :
                       Cardinality({q \in LineFeeds(text) : q < p}) = n - 2
      closed == n <= Cardinality(LineFeeds(text))
      after == IF closed
                 THEN CHOOSE p \in LineFeeds(text) :
                        Cardinality({q \in LineFeeds(text) : q < p}) = n - 1
                 ELSE Len(text) + 1
      last == IF closed /\ after - 1 > before /\ text[after - 1] = "\r"
                THEN after - 2 ELSE after - 1
  IN SubSeq(text, before + 1, last)

\* the text with every LF line ending turned into CRLF
RECURSIVE ToCRLF(_)
ToCRLF(text) ==
  IF text = <<>> THEN <<>>
  ELSE (IF Head(text) = "\n" THEN <<"\r", "\n">> ELSE <<Head(text)>>) \o ToCRLF(Tail(text))

\* C20: processTxt yields one chunk per line, in line order: an empty-line
\* chunk with empty originalText for a blank line, a chunk holding the line
\* for any other; the CRLF form of a text yields the same chunks as its LF form.
C20_OneChunkPerLine ==
  (Extracted(TxtFiles) /\ call.result.ok) =>
    LET text == call.arg.file.text
        chunks == call.result.val.chunks
    IN /\ Len(chunks) = Cardinality(LineFeeds(text)) + 1
       /\ \A k \in 1..Len(chunks) :
            /\ chunks[k].id[2] = k - 1
            /\ IF Trim(LineAt(text, k)) = <<>>
                 THEN chunks[k].type = "empty-line" /\ chunks[k].originalText = EmptyText
                 ELSE chunks[k].type # "empty-line"
                      /\ chunks[k].originalText = LineAt(text, k)
       /\ (\A k \in 1..Len(text) : text[k] # "\r") => processTxt(ToCRLF(text)) = chunks

\* a text of a blank line and a line "a" has become two chunks
C20_Witness ==
  /\ Extracted(TxtFiles)
  /\ call.arg.file.text = <<" ", "\n", "a">>
  /\ call.result.ok
  /\ Len(call.result.val.chunks) = 2
  /\ call.result.val.chunks[1].type = "empty-line"
  /\ call.result.val.chunks[2].originalText = <<"a">>

\* C21: in every chunk sequence processFile returns, from a text file, a Word
\* document or a PDF, a chunk has an empty originalText only if it is an
\* empty-line chunk.
C21_EmptyTextOnlyInEmptyLine ==
  (Extracted(ExtractFiles) /\ call.result.ok) =>
    \A k \in 1..Len(call.result.val.chunks) :
      call.result.val.chunks[k].originalText = EmptyText =>
        call.result.val.chunks[k].type = "empty-line"

\* C22: pasted text is segmented like a text file: every line becomes one
\* chunk in line order, an empty-line chunk for a blank line and a paragraph
\* chunk for any other line.
C22_PastedTextKeepsBlankLines ==
  (call.fn = "ProcessText" /\ call.done) =>
    /\ Len(state.chunks) = Cardinality(LineFeeds(call.arg)) + 1
    /\ \A k \in 1..Len(state.chunks) :
         IF Trim(LineAt(call.arg, k)) = <<>>
           THEN state.chunks[k].type = "empty-line"
           ELSE /\ state.chunks[k].type = "paragraph"
                /\ state.chunks[k].originalText = LineAt(call.arg, k)

\* the elements of a sequence of nodes that stand for a chunk, in depth-first
\* document order: headings, paragraphs, table cells and line breaks that
\* lie in no other such element
RECURSIVE Emitters(_)
Emitters(nodes) ==
  IF nodes = <<>> THEN <<>>
  ELSE LET n == Head(nodes)
       IN (IF n.tag \in {"h1", "h2", "h3", "h4", "h5", "h6", "p", "td", "th", "br"}
             THEN <<n>>
           ELSE IF n.tag = "#text" THEN <<>>
           ELSE Emitters(n.children)) \o Emitters(Tail(nodes))

\* C23: processDocx emits its chunks in depth-first document order: the i-th
\* chunk comes from the i-th heading, paragraph, table cell or line break met,
\* such an element is not descended into, and any other element emits nothing
\* and has its children visited in order.
C23_DocumentOrder ==
  (Extracted(DocxFiles) /\ call.result.ok) =>
    LET chunks == call.result.val.chunks
        from == Emitters(call.arg.file.html)
    IN /\ Len(chunks) = Len(from)
       /\ \A i \in 1..Len(chunks) :
            LET tag == from[i].tag
                text == Trim(innerText(from[i]))
            IN /\ chunks[i].id[2] = i - 1
               /\ chunks[i].type =
                    (CASE tag = "br" -> "empty-line"
                       [] tag \in {"td", "th"} -> "table-cell"
                       [] tag = "p" /\ text = <<>> -> "empty-line"
                       [] tag = "p" /\ checkboxMatch(text) -> "checkbox"
                       [] tag = "p" -> "paragraph"
                       [] OTHER -> "heading")
               /\ chunks[i].originalText =
                    (IF chunks[i].type = "empty-line" THEN EmptyText ELSE text)

\* a document of a container (a paragraph and a line break) followed by a
\* table whose cell holds a paragraph has become three chunks
C23_Witness ==
  /\ Extracted(DocxFiles)
  /\ call.arg.file.html =
       <<Element("div", <<P(<<"f">>), Element("br", <<>>)>>),
         Element("table", <<Element("tr", <<Element("td", <<P(<<"e">>)>>)>>)>>)>>
  /\ call.result.ok
  /\ [i \in 1..Len(call.result.val.chunks) |-> call.result.val.chunks[i].type]
       = <<"paragraph", "empty-line", "table-cell">>

\* the lines of a page: a fragment begins a line when it is the first of the
\* page or lies more than the threshold above or below the one before it
PageLines(items) ==
  LET begins == {k \in 1..Len(items) :
                   k = 1 \/ Abs(items[k].y - items[k - 1].y) > LINE_THRESHOLD}
      nth(n) == CHOOSE k \in begins : Cardinality({j \in begins : j < k}) = n - 1
  IN [n \in 1..Cardinality(begins) |->
        SubSeq(items, nth(n),
               IF n < Cardinality(begins) THEN nth(n + 1) - 1 ELSE Len(items))]

\* the lines of the pages of a document, page after page
RECURSIVE DocLines(_)
DocLines(pages) ==
  IF pages = <<>> THEN <<>> ELSE PageLines(Head(pages)) \o DocLines(Tail(pages))

\* the strings of the fragments of a line joined by spaces, trimmed
RECURSIVE JoinSpaces(_)
JoinSpaces(line) ==
  IF line = <<>> THEN <<>>
  ELSE IF Len(line) = 1 THEN line[1].str
  ELSE line[1].str \o <<" ">> \o JoinSpaces(Tail(line))
LineText(line) == Trim(JoinSpaces(line))

\* processFile has returned the chunks of a readable PDF
ExtractedPdf == Extracted(PdfFiles) /\ call.result.ok

\* C24: within a page a fragment stays on the line of the fragment before it
\* when their heights differ by at most the threshold and begins a new line
\* otherwise; the text of a line is its fragments' strings in order joined by
\* spaces, and no line spans two pages.
C24_LinesByThreshold ==
  ExtractedPdf =>
    LET texts(seq) == [k \in 1..Len(seq) |-> LineText(seq[k])]
        paragraphs == SelectSeq(call.result.val.chunks, LAMBDA c : c.type = "paragraph")
    IN [k \in 1..Len(paragraphs) |-> paragraphs[k].originalText]
         = SelectSeq(texts(DocLines(call.arg.file.pages)), LAMBDA t : t # <<>>)

\* C25: processPdf emits one chunk for every line of every page, the last
\* line of a page included, in page and line order: a paragraph for a line
\* with text and an empty-line for a blank line.
C25_OneChunkPerLine ==
  ExtractedPdf =>
    LET chunks == call.result.val.chunks
        lines == DocLines(call.arg.file.pages)
    IN /\ Len(chunks) = Len(lines)
       /\ \A k \in 1..Len(chunks) :
            chunks[k].type =
              (IF LineText(lines[k]) = <<>> THEN "empty-line" ELSE "paragraph")

\* C26: every batch call translateChunks issues carries the web-search tool
\* when grounding is enabled for the job, and none carries it when grounding
\* is disabled.
C26_GroundingFollowsTheJob ==
  \A k \in 1..Len(tc.log) :
    ("googleSearch" \in {tc.log[k].tools[j] : j \in 1..Len(tc.log[k].tools)})
      <=> tc.useGrounding

\* C27: the vision fallback can be reached from the screen: once an upload
\* has left the job with no chunk and with the bytes of the file, the
\* Translate control that starts startTranslation is available.
C27_TranslateAvailableForScans ==
  (/\ state.chunks = <<>>
   /\ ~Falsy(state.originalFileData)
   /\ ~state.isProcessing
   /\ state.error = Null) => TranslateButton_v1

\* C28: in the auto-translating App, once the runs started by an upload and
\* by changes of the target language have all ended without an error (and
\* without a reset in between), the
\* translations stored in the job are those made for the target language
\* selected last (a translation into a language begins with its code),
\* whatever order the runs ended in.
C28_LastSelectedLanguageWins ==
  (/\ app = "v2" /\ envKey
   /\ runs = <<>> /\ uploads = <<>>
   /\ state.error = Null /\ state.originalFileName # Null) =>
    \A i \in 1..Len(state.chunks) :
      LET c == state.chunks[i] IN
      (c.type # "empty-line" /\ ~Falsy(c.translatedText)) =>
        \/ c.translatedText = c.originalText
        \/ Head(c.translatedText) = state.targetLang

\* C29: provided every model call returns or fails, every run started by
\* startTranslation ends, and the step that ends a run leaves isProcessing
\* false and either an error set or every chunk with a defined translatedText.
C29_RunsEnd ==
  /\ (runs # <<>>) ~> (runs = <<>>)
  /\ [][Len(runs') < Len(runs) =>
          /\ ~state'.isProcessing
          /\ \/ state'.error # Null
             \/ \A i \in 1..Len(state'.chunks) :
                  state'.chunks[i].translatedText # Undefined]_vars

\* C30: when a standard translation succeeds, no chunk with a non-empty
\* originalText is left with an empty or missing translatedText, and a chunk
\* for whose position translateChunks yields an empty or missing string gets
\* its originalText as translatedText.
C30_MergeFallsBackToOriginal ==
  [][\A k \in 1..Len(runs) :
       runs[k].pc = "chunks" =>
         \A reply \in AppBatchReplies(svc, CurrentBatch(runs[k].t),
                                      runs[k].st.targetLang) :
           LET t == translateChunksStep(runs[k].t, reply) IN
           (BatchSettlesWith(k, reply) /\ t.status = "returned") =>
             /\ Len(state'.chunks) = Len(runs[k].st.chunks)
             /\ \A i \in 1..Len(state'.chunks) :
                  LET c == state'.chunks[i] IN
                  /\ c.originalText # EmptyText => ~Falsy(c.translatedText)
                  /\ Falsy(JsIndex(t.results, i - 1)) =>
                       c.translatedText = c.originalText]_vars

\* a job has ended well after the model answered a real segment with the
\* sentinel: the chunk shows its own text as its translation
C30_Witness ==
  /\ svc = "B"
  /\ runs = <<>> /\ state.error = Null /\ ~state.isProcessing
  /\ \E i \in 1..Len(state.chunks) :
       /\ state.chunks[i].type # "empty-line"
       /\ state.chunks[i].originalText # EmptyText
       /\ state.chunks[i].translatedText = state.chunks[i].originalText

====
